---- MODULE Spec2Model ----
(***************************************************************************)
(* Model of the idonttrustlikethat validation library                      *)
(* (src/src/validation.ts, the current iteration: lines 1-807).            *)
(*                                                                         *)
(* Validators are closures in the source.  Here a validator is a record    *)
(* naming its constructor and the values it closes over, and the body of   *)
(* each constructor's validationFunction is an operator over that record.  *)
(* JavaScript values are tagged records, a path is a string, a message is  *)
(* a record holding the template and the values substituted into it.       *)
(* Every validation returns an outcome [r, c, log]: the Validation result, *)
(* the context object as the call left it (withError and mapErrors write   *)
(* to the context they are given) and the trace of validators and user     *)
(* functions that ran.                                                     *)
(***************************************************************************)
EXTENDS Integers, Sequences, FiniteSets, TLC

VARIABLES validator, value, config, started, result, log, called, key, snake

vars == <<validator, value, config, started, result, log, called, key, snake>>

----------------------------------------------------------------------------
(* Bounds *)

\* The longest key given to snakeCaseTransformation.
MaxKeyLen == 4

\* The longest input array.
MaxLen == 2

\* The longest string given to numberFromString and intFromString.
MaxNumberLen == 5

----------------------------------------------------------------------------
(* JavaScript values *)

Undefined == [t |-> "undefined"]
Null == [t |-> "null"]
Bool(b) == [t |-> "boolean", b |-> b]
Num(n) == [t |-> "number", n |-> n]
Str(s) == [t |-> "string", s |-> s]
Arr(items) == [t |-> "array", items |-> items]
Obj(keys, get) == [t |-> "object", keys |-> keys, get |-> get]

EmptyObj == Obj(<<>>, <<>>)

SeqToSet(s) == {s[i] : i \in 1..Len(s)}

\* String(i) for the array indices the model uses.
String(i) ==
  CASE i = 0 -> "0" [] i = 1 -> "1" [] i = 2 -> "2" [] i = 3 -> "3"
    [] i = 4 -> "4" [] i = 5 -> "5" [] i = 6 -> "6" [] i = 7 -> "7"

\* The own enumerable keys of a value, in `for (key in v)` order.
OwnKeys(v) ==
  CASE v.t = "object" -> v.keys
    [] v.t = "array" -> [i \in 1..Len(v.items) |-> String(i - 1)]
    [] OTHER -> <<>>

\* v[name] for a value that passed the `v == null` guard.  The model's keys
\* are never "length" nor a name found on a prototype.
GetProp(v, name) ==
  CASE v.t = "object" ->
         IF name \in SeqToSet(v.keys) THEN v.get[name] ELSE Undefined
    [] v.t = "array" ->
         IF \E i \in 1..Len(v.items) : String(i - 1) = name
         THEN v.items[CHOOSE i \in 1..Len(v.items) : String(i - 1) = name]
         ELSE Undefined
    [] OTHER -> Undefined

\* The identity of an object or array of the input, where the model gives
\* its inputs identities; 0 for a value made during the call.
IdOf(v) == IF "id" \in DOMAIN v THEN v.id ELSE 0

\* obj[name] = val on a plain object: a new key is appended, an existing
\* key keeps its position, and the object stays the object it was.
SetProp(obj, name, val) ==
  LET keys == IF name \in SeqToSet(obj.keys) THEN obj.keys
              ELSE Append(obj.keys, name)
      get == [k \in SeqToSet(keys) |-> IF k = name THEN val ELSE obj.get[k]]
  IN IF IdOf(obj) = 0 THEN Obj(keys, get)
     ELSE [t |-> "object", keys |-> keys, get |-> get, id |-> obj.id]

----------------------------------------------------------------------------
(* Result, ValidationError, Path, Context *)

Ok(v) == [ok |-> TRUE, value |-> v]

Err(errors) == [ok |-> FALSE, errors |-> errors]

failure(path, message) == Err(<<[path |-> path, message |-> message]>>)

valueType(v) ==
  IF v.t = "array" THEN "array"
  ELSE IF v.t = "null" THEN "null"
  ELSE v.t

typeFailureMessage(expectedType, v) ==
  [m |-> "Expected $1, got $2", expected |-> expectedType, got |-> valueType(v)]

typeFailure(v, path, expectedType) ==
  Err(<<[path |-> path, message |-> typeFailureMessage(expectedType, v)]>>)

\* getPath putting the dot before every segment, also at the root.
getPathDotted(name, parent) == parent \o "." \o name

getPath(name, parent) == IF parent # "" THEN parent \o "." \o name ELSE name

rootPath == ""

\* A context object: the configuration and, once a customization fired,
\* the `_hadCustomError` property.
Context(transformObjectKeys, hadCustomError) ==
  [transformObjectKeys |-> transformObjectKeys, hadCustomError |-> hadCustomError]

defaultContext == Context("undefined", FALSE)

\* { ...context }: every own property is copied, `_hadCustomError` included.
Spread(context) == Context(context.transformObjectKeys, context.hadCustomError)

SetHadCustomError(context) == Context(context.transformObjectKeys, TRUE)

Out(r, c, l) == [r |-> r, c |-> c, log |-> l]

\* Trace events: a validationFunction entered at a path, a user function
\* called, an object field read, an object validator returning.
Entered(V, p) == [e |-> "validate", k |-> V.k, p |-> p]
Called(f) == [e |-> "call", f |-> f]

\* target[name] = val, or target.push(val) with the index as name.
Wrote(target, name, val) == [e |-> "write", id |-> IdOf(target), name |-> name, val |-> val]

\* The paths the validators of a trace were given.
PathsOf(lg) == {lg[i].p : i \in {j \in 1..Len(lg) : lg[j].e = "validate"}}

----------------------------------------------------------------------------
(* Strings as character sequences.  TLC cannot take a string apart, so the *)
(* characters of the strings the model uses are tabulated.                 *)

Chars(s) ==
  CASE s = "" -> <<>>
    [] s = "1" -> <<"1">>
    [] s = "a" -> <<"a">>
    [] s = "b" -> <<"b">>
    [] s = "c" -> <<"c">>
    [] s = "id" -> <<"i", "d">>
    [] s = "-5" -> <<"-", "5">>
    [] s = "GOD" -> <<"G", "O", "D">>
    [] s = "aB" -> <<"a", "B">>
    [] s = "a_b" -> <<"a", "_", "b">>
    [] s = "a1B" -> <<"a", "1", "B">>
    [] s = "a1_b" -> <<"a", "1", "_", "b">>
    [] s = "a1b" -> <<"a", "1", "b">>

RECURSIVE Join(_)
Join(cs) == IF cs = <<>> THEN "" ELSE Head(cs) \o Join(Tail(cs))

RECURSIVE FlatSeq(_)
FlatSeq(ss) == IF ss = <<>> THEN <<>> ELSE Head(ss) \o FlatSeq(Tail(ss))

----------------------------------------------------------------------------
(* snakeCaseTransformation *)

LowerLetters == <<"a", "b", "c", "d", "e", "f", "g", "h", "i", "j", "k", "l", "m",
                  "n", "o", "p", "q", "r", "s", "t", "u", "v", "w", "x", "y", "z">>

UpperLetters == <<"A", "B", "C", "D", "E", "F", "G", "H", "I", "J", "K", "L", "M",
                  "N", "O", "P", "Q", "R", "S", "T", "U", "V", "W", "X", "Y", "Z">>

DigitChars == <<"0", "1", "2", "3", "4", "5", "6", "7", "8", "9">>

IsLower(ch) == ch \in SeqToSet(LowerLetters)
IsUpper(ch) == ch \in SeqToSet(UpperLetters)
IsDigit(ch) == ch \in SeqToSet(DigitChars)

\* The character class [a-z\\\\d] of lowerThenUpper as the regex engine reads
\* it: the range a-z, an escaped backslash (twice) and the letter d.
lowerThenUpperClass(ch) == IsLower(ch) \/ ch = "\\" \/ ch = "d"

\* The last index of the run of uppercase letters that starts at i.
RECURSIVE UpperRunEnd(_, _)
UpperRunEnd(s, i) ==
  IF i < Len(s) /\ IsUpper(s[i + 1]) THEN UpperRunEnd(s, i + 1) ELSE i

\* s.replace(/([A-Z]+)([A-Z][a-z])/g, '$1_$2') scanning from index i.
\* [A-Z]+ is greedy and gives back one letter to [A-Z]: a match starts at i
\* when the run of capitals starting at i has two letters or more and a
\* lowercase letter follows it.
RECURSIVE upperThenLower(_, _)
upperThenLower(s, i) ==
  IF i > Len(s) THEN <<>>
  ELSE LET j == UpperRunEnd(s, i)
       IN IF IsUpper(s[i]) /\ j > i /\ j < Len(s) /\ IsLower(s[j + 1])
          THEN SubSeq(s, i, j - 1) \o <<"_">> \o SubSeq(s, j, j + 1)
                 \o upperThenLower(s, j + 2)
          ELSE <<s[i]>> \o upperThenLower(s, i + 1)

\* s.replace(/([a-z\\\\d])([A-Z])/g, '$1_$2') scanning from index i.
RECURSIVE lowerThenUpper(_, _)
lowerThenUpper(s, i) ==
  IF i > Len(s) THEN <<>>
  ELSE IF i < Len(s) /\ lowerThenUpperClass(s[i]) /\ IsUpper(s[i + 1])
       THEN <<s[i], "_", s[i + 1]>> \o lowerThenUpper(s, i + 2)
       ELSE <<s[i]>> \o lowerThenUpper(s, i + 1)

\* toLowerCase leaving the key as it is.
toLowerCaseSkipped(s) == s

toLowerCase(s) ==
  [i \in 1..Len(s) |->
     IF IsUpper(s[i])
     THEN LowerLetters[CHOOSE n \in 1..26 : UpperLetters[n] = s[i]]
     ELSE s[i]]

snakeCaseTransformation(k) ==
  toLowerCase(lowerThenUpper(upperThenLower(k, 1), 1))

\* context.transformObjectKeys(key) for the transformations of the model:
\* snakeCaseTransformation and k => '_' + k.
ApplyTransform(t, k) ==
  CASE t = "snakeCaseTransformation" -> Join(snakeCaseTransformation(Chars(k)))
    [] t = "underscorePrefix" -> "_" \o k

----------------------------------------------------------------------------
(* Validator constructors.  The record holds what the closure captures.    *)

null == [k |-> "null"]
undefined == [k |-> "undefined"]
string == [k |-> "string"]
number == [k |-> "number"]
boolean == [k |-> "boolean"]
unknown == [k |-> "unknown"]

literal(v) == [k |-> "literal", literal |-> v]

array(V) == [k |-> "array", validator |-> V]

tuple(validators) == [k |-> "tuple", validators |-> validators]

\* props: the declared fields in declaration order, <<key, validator>> each.
object(props) == [k |-> "object", props |-> props]

dictionary(domain, codomain) ==
  [k |-> "dictionary", domain |-> domain, codomain |-> codomain]

intersection(validators) == [k |-> "intersection", validators |-> validators]

IsValidator(x) == "k" \in DOMAIN x

\* union(...validators): the first argument decides between validators and
\* bare literals; `probe && typeof probe === 'object'` holds of a validator
\* and of no literal (null is falsy, the others are no objects).
union(validators) ==
  IF Len(validators) > 0 /\ IsValidator(validators[1])
  THEN [k |-> "union", union |-> validators]
  ELSE [k |-> "unionOfLiterals",
        union |-> [i \in 1..Len(validators) |-> literal(validators[i])]]

\* discriminatedUnion(typeKey, ...vs)
discriminatedUnion(typeKey, vs) ==
  [k |-> "discriminatedUnion", typeKey |-> typeKey, vs |-> vs]

then(self, V) == [k |-> "then", self |-> self, validator |-> V]

and(V, fn) == [k |-> "and", validator |-> V, fn |-> fn]

map(V, fn) == and(V, [f |-> "map", fn |-> fn])

filter(V, fn) == and(V, [f |-> "filter", fn |-> fn])

withError(V, errorFunction) ==
  [k |-> "withError", validator |-> V, errorFunction |-> errorFunction]

mapErrors(V, errorFunction) ==
  [k |-> "mapErrors", validator |-> V, errorFunction |-> errorFunction]

nullable(V) == union(<<V, null, undefined>>)

\* optional accepting null as nullable does.
optionalAcceptingNull(V) == union(<<V, null, undefined>>)

optional(V) == union(<<V, undefined>>)

\* default(defaultValue): this.nullable().map(v => ...); the record given
\* to and is map's closure over the function default hands it.
default(V, defaultValue) ==
  and(nullable(V), [f |-> "default", defaultValue |-> defaultValue])

minSize(n) == [f |-> "minSize", minSize |-> n]

numberFromString == and(string, [f |-> "numberFromString"])

intFromString == and(numberFromString, [f |-> "intFromString"])

\* The validator Self that recursion hands to the function `definition`.
Self(name) == [k |-> "Self", definition |-> name]

\* definition(self) for the definitions of the model:
\* self => object({ aB: number, c: array(self) })
definition(name, self) ==
  CASE name = "tree" -> object(<< <<"aB", number>>, <<"c", array(self)>> >>)

\* recursion(definition) returns Result = definition(Self).
recursion(name) == definition(name, Self(name))

----------------------------------------------------------------------------
(* Number(str) and Number.isNaN, Number.isInteger.  A string given to the  *)
(* parsing validators carries its lexemes: one character each, the keyword *)
(* Infinity as one.  A number is NaN, an infinity, or the finite value     *)
(* (-1)^neg * m * 10^e with m not divisible by 10.                          *)

StrOf(lexemes) == [t |-> "string", s |-> Join(lexemes), lexemes |-> lexemes]

NaN == [t |-> "number", kind |-> "NaN"]

Infinity(neg) == [t |-> "number", kind |-> "Infinity", neg |-> neg]

Finite(neg, m, e) == [t |-> "number", kind |-> "finite", neg |-> neg, m |-> m, e |-> e]

DigitOf(c) == (CHOOSE i \in 1..10 : DigitChars[i] = c) - 1

RECURSIVE DigitPrefix(_)
DigitPrefix(cs) ==
  IF cs = <<>> \/ ~IsDigit(Head(cs)) THEN <<>>
  ELSE <<Head(cs)>> \o DigitPrefix(Tail(cs))

RECURSIVE DigitsValue(_)
DigitsValue(ds) ==
  IF ds = <<>> THEN 0
  ELSE 10 * DigitsValue(SubSeq(ds, 1, Len(ds) - 1)) + DigitOf(ds[Len(ds)])

RECURSIVE NumDigits(_)
NumDigits(m) == IF m < 10 THEN 1 ELSE 1 + NumDigits(m \div 10)

\* The six leading decimal digits of m.
Lead6(m) ==
  IF NumDigits(m) <= 6 THEN m * 10 ^ (6 - NumDigits(m))
  ELSE m \div 10 ^ (NumDigits(m) - 6)

\* m * 10^e with the trailing zeros of m moved to the exponent.
RECURSIVE Normalized(_, _, _)
Normalized(neg, m, e) ==
  IF m = 0 THEN Finite(neg, 0, 0)
  ELSE IF m % 10 = 0 THEN Normalized(neg, m \div 10, e + 1)
  ELSE Finite(neg, m, e)

\* The double nearest to m * 10^e: beyond 1.7976931348623157e308 it is an
\* infinity, below half of 4.9e-324 it is zero.  Between them the model
\* keeps the decimal value; its mantissas are far shorter than 17 digits.
ToDouble(neg, m, e) ==
  LET order == NumDigits(m) - 1 + e
  IN IF m = 0 THEN Finite(neg, 0, 0)
     ELSE IF order > 308 \/ (order = 308 /\ Lead6(m) > 179769) THEN Infinity(neg)
     ELSE IF order < -324 \/ (order = -324 /\ Lead6(m) <= 247032)
     THEN Finite(neg, 0, 0)
     ELSE Normalized(neg, m, e)

\* StrUnsignedDecimalLiteral: digits, an optional fraction, an optional
\* exponent; anything else is NaN.
StrUnsignedDecimalLiteral(neg, cs) ==
  LET signedExponent(afterE) ==
        IF afterE # <<>> /\ Head(afterE) = "-" THEN <<TRUE, Tail(afterE)>>
        ELSE IF afterE # <<>> /\ Head(afterE) = "+" THEN <<FALSE, Tail(afterE)>>
        ELSE <<FALSE, afterE>>
      exponentPart(int, frac, r2, exp) ==
        IF Len(int) + Len(frac) = 0 THEN NaN
        ELSE IF r2 = <<>> THEN ToDouble(neg, DigitsValue(int \o frac), 0 - Len(frac))
        ELSE IF ~(Head(r2) \in {"e", "E"} /\ exp[2] # <<>>
                    /\ DigitPrefix(exp[2]) = exp[2])
        THEN NaN
        ELSE ToDouble(neg, DigitsValue(int \o frac),
                      (IF exp[1] THEN 0 - DigitsValue(exp[2]) ELSE DigitsValue(exp[2]))
                        - Len(frac))
      afterFraction(int, frac, r2) ==
        exponentPart(int, frac, r2,
                     IF r2 = <<>> THEN <<FALSE, <<>> >> ELSE signedExponent(Tail(r2)))
      fractionPart(int, r1, frac) ==
        IF r1 # <<>> /\ Head(r1) = "."
        THEN afterFraction(int, frac, SubSeq(r1, Len(frac) + 2, Len(r1)))
        ELSE afterFraction(int, <<>>, r1)
      afterInteger(int, r1) ==
        fractionPart(int, r1, IF r1 = <<>> THEN <<>> ELSE DigitPrefix(Tail(r1)))
      integerPart(int) == afterInteger(int, SubSeq(cs, Len(int) + 1, Len(cs)))
  IN integerPart(DigitPrefix(cs))

\* Number(str): the empty string is 0, a sign may lead, Infinity is a
\* literal of its own.  The strings of the model hold no white space and
\* no 0x, 0o or 0b prefix.
Number(str) ==
  LET signedLiteral(neg, body) ==
        IF body = <<"Infinity">> THEN Infinity(neg)
        ELSE StrUnsignedDecimalLiteral(neg, body)
      cs == str.lexemes
  IN IF cs = <<>> THEN Finite(FALSE, 0, 0)
     ELSE IF Head(cs) \in {"-", "+"} THEN signedLiteral(Head(cs) = "-", Tail(cs))
     ELSE signedLiteral(FALSE, cs)

NumberIsNaN(n) == n.kind = "NaN"

NumberIsInteger(n) == n.kind = "finite" /\ (n.m = 0 \/ n.e >= 0)

----------------------------------------------------------------------------
(* User functions: the refinements, predicates and error functions the     *)
(* schemas of the model pass to and, filter, map, withError and mapErrors. *)

\* Err(string): the failure a refinement or withError hands to transform.
ErrString(message) == [ok |-> FALSE, errors |-> message, string |-> TRUE]

\* Number(str) >= 0 for the strings of the model; NaN compares false.
NonNegativeNumber(v) ==
  /\ v.t = "string"
  /\ v.s \in {"", "1"}

Predicate(fn, v) ==
  CASE fn = "notGOD" -> v # Str("GOD")
    [] fn = "nonNegative" -> NonNegativeNumber(v)

MapFunction(fn, v) ==
  CASE fn = "wrap" -> Arr(<<v>>)
    [] fn = "toUndefined" -> Undefined
    [] fn = "underscore" -> Str("_" \o v.s)

\* What a call leaves when it threw: the exception.  The steps the model
\* still evaluates after it see a failure without errors; Returned cuts
\* them off.
Thrown(error) == [ok |-> FALSE, errors |-> <<>>, thrown |-> error]

HasThrown(r) == "thrown" \in DOMAIN r

Threw(error) == [e |-> "throw", error |-> error]

\* minSize(n)(value); Object.keys of a number or boolean is empty, and
\* Object.keys(null) and Object.keys(undefined) throw a TypeError.
minSizeFn(n, v) ==
  LET size == CASE v.t = "string" -> Len(v.s)
                [] v.t = "array" -> Len(v.items)
                [] v.t = "object" -> Len(v.keys)
                [] v.t \in {"number", "boolean"} -> 0
  IN IF v.t \in {"null", "undefined"}
     THEN Thrown("TypeError: Cannot convert undefined or null to object")
     ELSE IF size >= n
     THEN Ok(v)
     ELSE ErrString([m |-> "Expected a min size of $1, got $2",
                     minSize |-> n, size |-> size])

\* defaultFn replacing every falsy value, as `v || defaultValue` does.
defaultFnFalsy(defaultValue, v) ==
  IF v \in {Null, Undefined, Str(""), Num(0), Bool(FALSE)} THEN defaultValue ELSE v

\* v => v === null || v === undefined ? defaultValue : v
defaultFn(defaultValue, v) ==
  IF v = Null \/ v = Undefined THEN defaultValue ELSE v

\* The refinement of numberFromString.
numberFromStringFn(str) ==
  LET refined(parsed) ==
        IF NumberIsNaN(parsed)
        THEN ErrString([m |-> "\"$1\" is not a stringified number", str |-> str.s])
        ELSE Ok(parsed)
  IN refined(Number(str))

\* The refinement of intFromString.
intFromStringFn(num) ==
  IF NumberIsInteger(num) THEN Ok(num)
  ELSE ErrString([m |-> "$1 is not an int", num |-> num])

\* fn(r.value) for the function given to and; map and filter wrap theirs.
CallFn(fn, v) ==
  CASE fn.f = "minSize" -> minSizeFn(fn.minSize, v)
    [] fn.f = "numberFromString" -> numberFromStringFn(v)
    [] fn.f = "intFromString" -> intFromStringFn(v)
    [] fn.f = "default" -> Ok(defaultFn(fn.defaultValue, v))
    [] fn.f = "map" -> Ok(MapFunction(fn.fn, v))
    [] fn.f = "filter" ->
         IF Predicate(fn.fn, v)
         THEN Ok(v)
         ELSE ErrString([m |-> "filter error: $1\"", v |-> v])

\* errorFunction(value) of withError: a message naming function and input.
CallErrorFunction(errorFunction, v) == [m |-> errorFunction, v |-> v]

\* errorFunction(errors) of mapErrors.
CallMapErrorsFunction(errorFunction, errors) ==
  CASE errorFunction = "relabel" ->
         [i \in 1..Len(errors) |->
            [path |-> errors[i].path,
             message |-> [m |-> "relabel", inner |-> errors[i].message]]]
    [] errorFunction = "dropAll" -> <<>>

----------------------------------------------------------------------------
(* Validator.validate and the validationFunction of every constructor      *)

RECURSIVE validate(_, _, _, _)

nullValidator(v, context, p) ==
  Out(IF v = Null THEN Ok(v) ELSE typeFailure(v, p, "null"), context, <<>>)

undefinedValidator(v, context, p) ==
  Out(IF v = Undefined THEN Ok(v) ELSE typeFailure(v, p, "undefined"), context, <<>>)

stringValidator(v, context, p) ==
  Out(IF v.t = "string" THEN Ok(v) ELSE typeFailure(v, p, "string"), context, <<>>)

numberValidator(v, context, p) ==
  Out(IF v.t = "number" THEN Ok(v) ELSE typeFailure(v, p, "number"), context, <<>>)

booleanValidator(v, context, p) ==
  Out(IF v.t = "boolean" THEN Ok(v) ELSE typeFailure(v, p, "boolean"), context, <<>>)

unknownValidator(v, context, p) == Out(Ok(v), context, <<>>)

\* a == b of JavaScript on the values of the model, where === is meant.
LooselyEqual(a, b) ==
  \/ a = b
  \/ {a, b} = {Null, Undefined}
  \/ {a, b} = {Num(1), Str("1")}
  \/ {a, b} = {Num(1), Bool(TRUE)}
  \/ {a, b} = {Str("1"), Bool(TRUE)}

\* literalValidate comparing with == instead of ===.
literalValidateLoosely(V, v, context, p) ==
  Out(IF LooselyEqual(v, V.literal)
      THEN Ok(v)
      ELSE failure(p, [m |-> "Expected $1, got $2", expected |-> V.literal, got |-> v]),
      context, <<>>)

literalValidate(V, v, context, p) ==
  Out(IF v = V.literal
      THEN Ok(v)
      ELSE failure(p, [m |-> "Expected $1, got $2", expected |-> V.literal, got |-> v]),
      context, <<>>)

(* array *)

RECURSIVE arrayLoop(_, _, _, _, _, _, _, _)

\* arrayLoop handing its own context object to every item.
arrayLoopSharedContext(V, v, context, p, i, validatedArray, errors, lg) ==
  IF i > Len(v.items)
  THEN Out(IF Len(errors) > 0 THEN Err(errors) ELSE Ok(Arr(validatedArray)),
           context, lg)
  ELSE LET validation == validate(V.validator, v.items[i], context,
                                  getPath(String(i - 1), p))
       IN IF validation.r.ok
          THEN arrayLoop(V, v, validation.c, p, i + 1,
                         Append(validatedArray, validation.r.value), errors,
                         lg \o validation.log)
          ELSE arrayLoop(V, v, validation.c, p, i + 1, validatedArray,
                         errors \o validation.r.errors, lg \o validation.log)

arrayLoop(V, v, context, p, i, validatedArray, errors, lg) ==
  IF i > Len(v.items)
  THEN Out(IF Len(errors) > 0 THEN Err(errors) ELSE Ok(Arr(validatedArray)),
           context, lg)
  ELSE LET validation == validate(V.validator, v.items[i], Spread(context),
                                  getPath(String(i - 1), p))
       IN IF validation.r.ok
          THEN arrayLoop(V, v, context, p, i + 1,
                         Append(validatedArray, validation.r.value), errors,
                         lg \o validation.log
                            \o <<Wrote(Arr(validatedArray), String(i - 1),
                                       validation.r.value)>>)
          ELSE arrayLoop(V, v, context, p, i + 1, validatedArray,
                         errors \o validation.r.errors, lg \o validation.log)

arrayValidate(V, v, context, p) ==
  IF v.t # "array"
  THEN Out(typeFailure(v, p, "array"), context, <<>>)
  ELSE arrayLoop(V, v, context, p, 1, <<>>, <<>>, <<>>)

(* tuple *)

\* tupleLoop handing its own context object to every item's validator.
RECURSIVE tupleLoopSharedContext(_, _, _, _, _, _, _, _)
tupleLoopSharedContext(V, v, context, p, i, validatedArray, errors, lg) ==
  IF i > Len(v.items)
  THEN Out(IF Len(errors) > 0 THEN Err(errors) ELSE Ok(Arr(validatedArray)),
           context, lg)
  ELSE LET validation == validate(V.validators[i], v.items[i], context,
                                  getPath(String(i - 1), p))
       IN IF validation.r.ok
          THEN tupleLoopSharedContext(V, v, validation.c, p, i + 1,
                                      Append(validatedArray, validation.r.value),
                                      errors, lg \o validation.log)
          ELSE tupleLoopSharedContext(V, v, validation.c, p, i + 1, validatedArray,
                                      errors \o validation.r.errors,
                                      lg \o validation.log)

RECURSIVE tupleLoop(_, _, _, _, _, _, _, _)
tupleLoop(V, v, context, p, i, validatedArray, errors, lg) ==
  IF i > Len(v.items)
  THEN Out(IF Len(errors) > 0 THEN Err(errors) ELSE Ok(Arr(validatedArray)),
           context, lg)
  ELSE LET validation == validate(V.validators[i], v.items[i], Spread(context),
                                  getPath(String(i - 1), p))
       IN IF validation.r.ok
          THEN tupleLoop(V, v, context, p, i + 1,
                         Append(validatedArray, validation.r.value), errors,
                         lg \o validation.log
                            \o <<Wrote(Arr(validatedArray), String(i - 1),
                                       validation.r.value)>>)
          ELSE tupleLoop(V, v, context, p, i + 1, validatedArray,
                         errors \o validation.r.errors, lg \o validation.log)

\* tupleValidate rejecting the shorter lists only and validating the first
\* positions of a longer one.
tupleValidateTruncating(V, v, context, p) ==
  IF v.t # "array"
  THEN Out(typeFailure(v, p, "Tuple"), context, <<>>)
  ELSE IF Len(v.items) < Len(V.validators)
  THEN Out(failure(p, [m |-> "Expected Tuple$1, got Tuple$2",
                       expected |-> Len(V.validators), got |-> Len(v.items)]),
           context, <<>>)
  ELSE tupleLoop(V, Arr(SubSeq(v.items, 1, Len(V.validators))), context, p, 1,
                 <<>>, <<>>, <<>>)

tupleValidate(V, v, context, p) ==
  IF v.t # "array"
  THEN Out(typeFailure(v, p, "Tuple"), context, <<>>)
  ELSE IF Len(v.items) # Len(V.validators)
  THEN Out(failure(p, [m |-> "Expected Tuple$1, got Tuple$2",
                       expected |-> Len(V.validators), got |-> Len(v.items)]),
           context, <<>>)
  ELSE tupleLoop(V, v, context, p, 1, <<>>, <<>>, <<>>)

(* object *)

\* transformedKeyOf looking the declared name up as it is.
transformedKeyOfDeclared(context, name) == name

transformedKeyOf(context, name) ==
  IF context.transformObjectKeys # "undefined"
  THEN ApplyTransform(context.transformObjectKeys, name)
  ELSE name

\* A declared field was read.  The trace keeps the declared name, the key
\* looked up in the input v, the value found there, the object's path, the
\* path given to the field's validator, that validator's result and the
\* paths of the validators that ran below the field.
FieldRead(name, transformedKey, v, val, parent, p, r, below) ==
  [e |-> "field", key |-> name, transformedKey |-> transformedKey, v |-> v,
   val |-> val, parent |-> parent, p |-> p, r |-> r, below |-> below]

\* An object validator returned r for the input v at path p, after the
\* field reads `reads` of its own loop.
ObjectBuilt(v, p, r, reads) ==
  [e |-> "object", v |-> v, at |-> p, r |-> r, reads |-> reads]

IsOwnRead(event, p) == event.e = "field" /\ event.parent = p

\* One field of the loop over props: the validation of props[key].
objectField(prop, v, context, p) ==
  LET transformedKey == transformedKeyOf(context, prop[1])
      val == GetProp(v, transformedKey)
      validation == validate(prop[2], val, Spread(context),
                             getPath(transformedKey, p))
  IN Out(validation.r, validation.c,
         <<FieldRead(prop[1], transformedKey, v, val, p,
                     getPath(transformedKey, p), validation.r,
                     PathsOf(validation.log))>>
           \o validation.log)

\* objectStore writing the key whatever the validated value is.
objectStoreAlways(validatedObject, name, val) ==
  SetProp(validatedObject, name, val)

\* if (validation.value !== undefined) validatedObject[key] = validation.value
objectStore(validatedObject, name, val) ==
  IF val # Undefined THEN SetProp(validatedObject, name, val) ELSE validatedObject

RECURSIVE objectLoop(_, _, _, _, _, _, _, _)
objectLoop(V, v, context, p, i, validatedObject, errors, lg) ==
  IF i > Len(V.props)
  THEN LET r == IF Len(errors) > 0 THEN Err(errors) ELSE Ok(validatedObject)
           reads == SelectSeq(lg, LAMBDA event : IsOwnRead(event, p))
       IN Out(r, context, Append(lg, ObjectBuilt(v, p, r, reads)))
  ELSE LET validation == objectField(V.props[i], v, context, p)
       IN IF validation.r.ok
          THEN objectLoop(V, v, context, p, i + 1,
                          objectStore(validatedObject, V.props[i][1],
                                      validation.r.value),
                          errors,
                          lg \o validation.log
                             \o IF objectStore(validatedObject, V.props[i][1],
                                               validation.r.value) = validatedObject
                                THEN <<>>
                                ELSE <<Wrote(validatedObject, V.props[i][1],
                                             validation.r.value)>>)
          ELSE objectLoop(V, v, context, p, i + 1, validatedObject,
                          errors \o validation.r.errors, lg \o validation.log)

objectValidate(V, v, context, p) ==
  IF v.t \in {"null", "undefined"} \/ v.t \notin {"object", "array"}
  THEN Out(typeFailure(v, p, "object"), context, <<>>)
  ELSE objectLoop(V, v, context, p, 1, EmptyObj, <<>>, <<>>)

(* dictionary *)

\* The property name a validated key is written under.
PropertyKey(v) ==
  CASE v.t = "string" -> v.s
    [] v.t = "number" -> String(v.n)
    [] v.t = "undefined" -> "undefined"
    [] v.t = "null" -> "null"

prefixErrors(errors, path, prefix) ==
  [i \in 1..Len(errors) |->
     [path |-> path, message |-> [m |-> prefix, inner |-> errors[i].message]]]

RECURSIVE dictionaryLoop(_, _, _, _, _, _, _, _)
dictionaryLoop(V, v, context, p, i, validatedDict, errors, lg) ==
  IF i > Len(OwnKeys(v))
  THEN Out(IF Len(errors) > 0 THEN Err(errors) ELSE Ok(validatedDict),
           context, lg)
  ELSE LET name == OwnKeys(v)[i]
           val == GetProp(v, name)
           path == getPath(name, p)
           domainValidation == validate(V.domain, Str(name), Spread(context), path)
           codomainValidation == validate(V.codomain, val, Spread(context), path)
           writtenKey == IF domainValidation.r.ok
                         THEN PropertyKey(domainValidation.r.value)
                         ELSE name
           errors1 == IF domainValidation.r.ok
                      THEN errors
                      ELSE errors \o prefixErrors(domainValidation.r.errors,
                                                  path, "key error: $1")
       IN IF codomainValidation.r.ok
          THEN dictionaryLoop(V, v, context, p, i + 1,
                              SetProp(validatedDict, writtenKey,
                                      codomainValidation.r.value),
                              errors1,
                              lg \o domainValidation.log \o codomainValidation.log
                                 \o <<Wrote(validatedDict, writtenKey,
                                            codomainValidation.r.value)>>)
          ELSE dictionaryLoop(V, v, context, p, i + 1, validatedDict,
                              errors1 \o prefixErrors(codomainValidation.r.errors,
                                                      path, "value error: $1"),
                              lg \o domainValidation.log \o codomainValidation.log)

\* dictionaryValidate writing the validated entries into a plain input
\* object itself.
dictionaryValidateInPlace(V, v, context, p) ==
  IF v.t \in {"null", "undefined"} \/ v.t \notin {"object", "array"}
  THEN Out(typeFailure(v, p, "object"), context, <<>>)
  ELSE dictionaryLoop(V, v, context, p, 1,
                      IF v.t = "object" THEN v ELSE EmptyObj, <<>>, <<>>)

dictionaryValidate(V, v, context, p) ==
  IF v.t \in {"null", "undefined"} \/ v.t \notin {"object", "array"}
  THEN Out(typeFailure(v, p, "object"), context, <<>>)
  ELSE dictionaryLoop(V, v, context, p, 1, EmptyObj, <<>>, <<>>)

(* intersection *)

\* The spread keeping the value a key already has.
RECURSIVE spreadIntoKeepingFirst(_, _, _)
spreadIntoKeepingFirst(res, v, i) ==
  IF i > Len(OwnKeys(v)) THEN res
  ELSE spreadIntoKeepingFirst(
         IF OwnKeys(v)[i] \in SeqToSet(res.keys) THEN res
         ELSE SetProp(res, OwnKeys(v)[i], GetProp(v, OwnKeys(v)[i])), v, i + 1)

\* { ...result, ...value }: the own enumerable properties of value are
\* written over result; a number, boolean, null or undefined has none.
RECURSIVE spreadInto(_, _, _)
spreadInto(res, v, i) ==
  IF i > Len(OwnKeys(v)) THEN res
  ELSE spreadInto(SetProp(res, OwnKeys(v)[i], GetProp(v, OwnKeys(v)[i])), v, i + 1)

stringAsObject(v) ==
  IF v.t = "string"
  THEN Arr([i \in 1..Len(Chars(v.s)) |-> Str(Chars(v.s)[i])])
  ELSE v

\* intersectionLoop handing every child a copy of the context.
RECURSIVE intersectionLoopCopying(_, _, _, _, _, _, _, _)
intersectionLoopCopying(V, v, context, p, i, res, errors, lg) ==
  IF i > Len(V.validators)
  THEN Out(IF Len(errors) > 0 THEN Err(errors) ELSE Ok(res), context, lg)
  ELSE LET validation == validate(V.validators[i], v, Spread(context), p)
       IN IF validation.r.ok
          THEN intersectionLoopCopying(V, v, context, p, i + 1,
                                       spreadInto(res, stringAsObject(validation.r.value), 1),
                                       errors, lg \o validation.log)
          ELSE intersectionLoopCopying(V, v, context, p, i + 1, res,
                                       errors \o validation.r.errors,
                                       lg \o validation.log)

RECURSIVE intersectionLoop(_, _, _, _, _, _, _, _)
intersectionLoop(V, v, context, p, i, res, errors, lg) ==
  IF i > Len(V.validators)
  THEN Out(IF Len(errors) > 0 THEN Err(errors) ELSE Ok(res), context, lg)
  ELSE LET validation == validate(V.validators[i], v, context, p)
       IN IF validation.r.ok
          THEN intersectionLoop(V, v, validation.c, p, i + 1,
                                spreadInto(res, stringAsObject(validation.r.value), 1),
                                errors, lg \o validation.log)
          ELSE intersectionLoop(V, v, validation.c, p, i + 1, res,
                                errors \o validation.r.errors,
                                lg \o validation.log)

intersectionValidate(V, v, context, p) ==
  intersectionLoop(V, v, context, p, 1, EmptyObj, <<>>, <<>>)

(* union *)

RECURSIVE unionLoop(_, _, _, _, _, _, _)

\* unionLoop returning the errors of the alternatives when all have failed.
unionLoopAllErrors(V, v, context, p, i, errors, lg) ==
  IF i > Len(V.union)
  THEN Out(Err(FlatSeq(errors)), context, lg)
  ELSE LET validation == validate(V.union[i], v, Spread(context), p)
       IN IF validation.r.ok
          THEN Out(validation.r, context, lg \o validation.log)
          ELSE unionLoop(V, v, context, p, i + 1,
                         Append(errors, validation.r.errors),
                         lg \o validation.log)

unionLoop(V, v, context, p, i, errors, lg) ==
  IF i > Len(V.union)
  THEN Out(failure(p, [m |-> "The value $1 \nis not part of the union: \n\n$2",
                       v |-> v, detailString |-> errors]),
           context, lg)
  ELSE LET validation == validate(V.union[i], v, Spread(context), p)
       IN IF validation.r.ok
          THEN Out(validation.r, context, lg \o validation.log)
          ELSE unionLoop(V, v, context, p, i + 1,
                         Append(errors, validation.r.errors),
                         lg \o validation.log)

unionValidate(V, v, context, p) == unionLoop(V, v, context, p, 1, <<>>, <<>>)

RECURSIVE unionOfLiteralsLoop(_, _, _, _, _, _)
unionOfLiteralsLoop(V, v, context, p, i, lg) ==
  IF i > Len(V.union)
  THEN Out(failure(p, [m |-> "The value $1 is not part of the union", v |-> v]),
           context, lg)
  ELSE LET validation == validate(V.union[i], v, Spread(context), p)
       IN IF validation.r.ok
          THEN Out(validation.r, context, lg \o validation.log)
          ELSE unionOfLiteralsLoop(V, v, context, p, i + 1, lg \o validation.log)

unionOfLiteralsValidate(V, v, context, p) ==
  unionOfLiteralsLoop(V, v, context, p, 1, <<>>)

(* discriminatedUnion *)

\* Has the validator V a props object holding the key name?  object sets
\* props; intersection sets the props of its validators merged.
RECURSIVE HasProp(_, _)
HasProp(V, name) ==
  CASE V.k = "object" -> \E i \in 1..Len(V.props) : V.props[i][1] = name
    [] V.k = "intersection" ->
         \E i \in 1..Len(V.validators) : HasProp(V.validators[i], name)
    [] OTHER -> FALSE

\* validator.props[name]; Object.assign lets the last validator of an
\* intersection that declares the key win.
RECURSIVE PropOf(_, _)
PropOf(V, name) ==
  CASE V.k = "object" ->
         V.props[CHOOSE i \in 1..Len(V.props) : V.props[i][1] = name][2]
    [] V.k = "intersection" ->
         LET last == CHOOSE i \in 1..Len(V.validators) :
                       /\ HasProp(V.validators[i], name)
                       /\ \A j \in (i + 1)..Len(V.validators) :
                            ~HasProp(V.validators[j], name)
         IN PropOf(V.validators[last], name)

\* The literals the member registers in validatorByType: the literal of a
\* literal validator, the literals of a union of literals.
DiscriminantLiterals(member, typeKey) ==
  LET v == PropOf(member, typeKey)
  IN IF "literal" \in DOMAIN v
     THEN {v.literal}
     ELSE {v.union[i].literal : i \in 1..Len(v.union)}

\* The members validatorByType can return for typeValue: map.set lets the
\* last member registering a literal win.
validatorByType(V, typeValue) ==
  {i \in 1..Len(V.vs) :
     /\ typeValue \in DiscriminantLiterals(V.vs[i], V.typeKey)
     /\ \A j \in (i + 1)..Len(V.vs) :
          typeValue \notin DiscriminantLiterals(V.vs[j], V.typeKey)}

\* discriminatedUnionValidate reporting the discriminant's errors at the
\* path of the union itself.
discriminatedUnionValidateAtOwnPath(V, v, context, p) ==
  IF v \in {Null, Undefined}
  THEN Out(failure(p, [m |-> "union member is nullish: $1", v |-> v]),
           context, <<>>)
  ELSE LET typeValue == GetProp(v, V.typeKey)
           found == validatorByType(V, typeValue)
       IN IF typeValue = Undefined
          THEN Out(failure(p, [m |-> "discriminant key (\"$1\") missing in: $2",
                               typeKey |-> V.typeKey, v |-> v]),
                   context, <<>>)
          ELSE IF found = {}
          THEN Out(failure(p,
                           [m |-> "discriminant value (\"$1\": \"$2\") not part of the union",
                            typeKey |-> V.typeKey, typeValue |-> typeValue]),
                   context, <<>>)
          ELSE validate(V.vs[CHOOSE i \in found : TRUE], v, context, p)

discriminatedUnionValidate(V, v, context, p) ==
  IF v \in {Null, Undefined}
  THEN Out(failure(p, [m |-> "union member is nullish: $1", v |-> v]),
           context, <<>>)
  ELSE LET typeValue == GetProp(v, V.typeKey)
           found == validatorByType(V, typeValue)
       IN IF typeValue = Undefined
          THEN Out(failure(getPath(V.typeKey, p),
                           [m |-> "discriminant key (\"$1\") missing in: $2",
                            typeKey |-> V.typeKey, v |-> v]),
                   context, <<>>)
          ELSE IF found = {}
          THEN Out(failure(getPath(V.typeKey, p),
                           [m |-> "discriminant value (\"$1\": \"$2\") not part of the union",
                            typeKey |-> V.typeKey, typeValue |-> typeValue]),
                   context, <<>>)
          ELSE validate(V.vs[CHOOSE i \in found : TRUE], v, context, p)

(* then *)

\* thenValidate giving the second validator the input of the first.
thenValidateOnInput(V, v, context, p) ==
  LET validated == validate(V.self, v, context, p)
  IN IF ~validated.r.ok
     THEN validated
     ELSE LET next == validate(V.validator, v, validated.c, p)
          IN Out(next.r, next.c, validated.log \o next.log)

thenValidate(V, v, context, p) ==
  LET validated == validate(V.self, v, context, p)
  IN IF ~validated.r.ok
     THEN validated
     ELSE LET next == validate(V.validator, validated.r.value, validated.c, p)
          IN Out(next.r, next.c, validated.log \o next.log)

(* recursion *)

\* The validator Self of recursion(definition): it validates with Result,
\* the validator definition(Self) returned.
\* Self resolving to the definition at the root path instead of its own.
SelfValidateAtRoot(V, v, context, p) ==
  LET validation == validate(recursion(V.definition), v, context, rootPath)
  IN Out(validation.r, validation.c, validation.log)

SelfValidate(V, v, context, p) ==
  LET validation == validate(recursion(V.definition), v, context, p)
  IN Out(validation.r, validation.c, validation.log)

(* and, withError, mapErrors: the functions they give to transform *)

\* r => (r.ok ? fn(r.value) : r)
andFn(fn, r, context) ==
  LET outcome(returned) ==
        Out(returned, context,
            IF HasThrown(returned)
            THEN <<Called(fn.f), Threw(returned.thrown)>>
            ELSE <<Called(fn.f)>>)
  IN IF r.ok THEN outcome(CallFn(fn, r.value)) ELSE Out(r, context, <<>>)

\* withErrorFn without the first-customization-wins test of the flag.
withErrorFnEveryTime(errorFunction, r, v, context) ==
  IF r.ok
  THEN Out(r, context, <<>>)
  ELSE Out(ErrString(CallErrorFunction(errorFunction, v)),
           SetHadCustomError(context), <<Called(errorFunction)>>)

withErrorFn(errorFunction, r, v, context) ==
  IF r.ok \/ context.hadCustomError
  THEN Out(r, context, <<>>)
  ELSE Out(ErrString(CallErrorFunction(errorFunction, v)),
           SetHadCustomError(context), <<Called(errorFunction)>>)

mapErrorsFn(errorFunction, r, context) ==
  IF r.ok \/ context.hadCustomError
  THEN Out(r, context, <<>>)
  ELSE Out(Err(CallMapErrorsFunction(errorFunction, r.errors)),
           SetHadCustomError(context), <<Called(errorFunction)>>)

\* fn(validated, v, p, context) for the closure W hands to transform.
transformFn(W, r, v, p, context) ==
  CASE W.k = "and" -> andFn(W.fn, r, context)
    [] W.k = "withError" -> withErrorFn(W.errorFunction, r, v, context)
    [] W.k = "mapErrors" -> mapErrorsFn(W.errorFunction, r, context)

\* transform reporting the string error of fn at the root path.
transformFailingAtRoot(W, v, context, p) ==
  LET validated == validate(W.validator, v, context, p)
      transformed == transformFn(W, validated.r, v, p, validated.c)
      lg == validated.log \o transformed.log
  IN IF transformed.r.ok
     THEN Out(transformed.r, transformed.c, lg)
     ELSE IF "string" \in DOMAIN transformed.r
     THEN Out(failure(rootPath, transformed.r.errors), transformed.c, lg)
     ELSE Out(transformed.r, transformed.c, lg)

\* The validator transform(W.validator, fn) returns.
transform(W, v, context, p) ==
  LET validated == validate(W.validator, v, context, p)
      transformed == transformFn(W, validated.r, v, p, validated.c)
      lg == validated.log \o transformed.log
  IN IF transformed.r.ok
     THEN Out(transformed.r, transformed.c, lg)
     ELSE IF "string" \in DOMAIN transformed.r
     THEN Out(failure(p, transformed.r.errors), transformed.c, lg)
     ELSE Out(transformed.r, transformed.c, lg)

(* dispatch on the constructor, and Validator.validate *)

validationFunction(V, v, context, p) ==
  CASE V.k = "null" -> nullValidator(v, context, p)
    [] V.k = "undefined" -> undefinedValidator(v, context, p)
    [] V.k = "string" -> stringValidator(v, context, p)
    [] V.k = "number" -> numberValidator(v, context, p)
    [] V.k = "boolean" -> booleanValidator(v, context, p)
    [] V.k = "unknown" -> unknownValidator(v, context, p)
    [] V.k = "literal" -> literalValidate(V, v, context, p)
    [] V.k = "array" -> arrayValidate(V, v, context, p)
    [] V.k = "tuple" -> tupleValidate(V, v, context, p)
    [] V.k = "object" -> objectValidate(V, v, context, p)
    [] V.k = "dictionary" -> dictionaryValidate(V, v, context, p)
    [] V.k = "intersection" -> intersectionValidate(V, v, context, p)
    [] V.k = "union" -> unionValidate(V, v, context, p)
    [] V.k = "unionOfLiterals" -> unionOfLiteralsValidate(V, v, context, p)
    [] V.k = "discriminatedUnion" -> discriminatedUnionValidate(V, v, context, p)
    [] V.k = "then" -> thenValidate(V, v, context, p)
    [] V.k \in {"and", "withError", "mapErrors"} -> transform(V, v, context, p)
    [] V.k = "Self" -> SelfValidate(V, v, context, p)

\* validate(value, context?, path?): an absent context argument is
\* Undefined; '' || rootPath is rootPath.
validate(V, v, context, path) ==
  LET out == validationFunction(V, v,
                                IF context = Undefined
                                THEN Spread(defaultContext)
                                ELSE context,
                                IF path = "" THEN rootPath ELSE path)
  IN Out(out.r, out.c, <<Entered(V, path)>> \o out.log)

----------------------------------------------------------------------------
(* The schemas and the inputs of the model *)

\* S.withError(f1).and(fn).withError(f2).filter(pred).withError(f3)
chain(S, f1, fn, f2, pred, f3) ==
  withError(filter(withError(and(withError(S, f1), fn), f2), pred), f3)

\* The parameters of the chains among the validators of the model: the
\* chain of the test 'custom error string' over three validators S, and the
\* id validator of the test 'custom error string for each item'.  No S
\* customizes an error in the context the chain runs in.
Chains ==
  {[S |-> S, f1 |-> "f1", fn |-> minSize(2), f2 |-> "f2", pred |-> "notGOD",
    f3 |-> "f3"] : S \in {string, number, array(withError(string, "g"))}}
  \cup {[S |-> string, f1 |-> "user id is mandatory", fn |-> minSize(1),
         f2 |-> "min size is 1", pred |-> "nonNegative",
         f3 |-> "Got a negative id"]}

ChainOf(c) == chain(c.S, c.f1, c.fn, c.f2, c.pred, c.f3)

customErrorChain(S) == chain(S, "f1", minSize(2), "f2", "notGOD", "f3")

userId ==
  chain(string, "user id is mandatory", minSize(1), "min size is 1",
        "nonNegative", "Got a negative id")

user == object(<< <<"id", userId>> >>)

burger == object(<< <<"aB", number>>, <<"c", withError(string, "f1")>> >>)

tree == recursion("tree")

\* The members and discriminated unions of the model, after the README's
\* userChatAction and the tests' unions over object and intersection members.
sending == object(<< <<"a", literal(Str("1"))>> >>)

editing == object(<< <<"a", literal(Num(1))>>, <<"b", string>> >>)

userChatAction == discriminatedUnion("a", <<sending, editing>>)

chatActionOfIntersections ==
  discriminatedUnion("a", <<intersection(<<sending, object(<< <<"b", number>> >>)>>),
                            editing>>)

idAction ==
  discriminatedUnion("id", <<object(<< <<"id", literal(Num(1))>> >>),
                             object(<< <<"id", union(<<Str("1")>>)>> >>)>>)

cooking ==
  discriminatedUnion("aB",
    <<object(<< <<"aB", literal(Num(1))>>, <<"c", withError(string, "f1")>> >>),
      object(<< <<"aB", union(<<Str("1"), Str("a")>>)>>, <<"c", number>> >>)>>)

Leaves ==
  {Undefined, Null, Bool(TRUE), Num(1), Str(""), Str("1"), Str("-5"), Str("GOD")}

SeqsUpTo(S, n) == UNION {[1..m -> S] : m \in 0..n}

\* The objects with the keys of `keys` (in this order), each absent or
\* holding a value of S.
RECURSIVE ObjectsOver(_, _)
ObjectsOver(keys, S) ==
  IF keys = <<>> THEN {EmptyObj}
  ELSE LET rest == ObjectsOver(SubSeq(keys, 1, Len(keys) - 1), S)
           last == keys[Len(keys)]
       IN rest \cup {SetProp(o, last, x) : o \in rest, x \in S}

Items == {Undefined, Num(1), Str(""), Str("1"), Str("-5")}

LeafArrays == {Arr(items) : items \in SeqsUpTo(Items, MaxLen)}

LeafObjects == ObjectsOver(<<"a", "b">>, Items)

Users == ObjectsOver(<<"id">>, {Num(1), Str(""), Str("1")})

UserArrays == {Arr(items) : items \in SeqsUpTo(Users, MaxLen)}

UserObjects == ObjectsOver(<<"a", "b">>, Users)

Burgers ==
  UNION {ObjectsOver(<<k1, k2>>, {Num(1), Str("1")}) :
           k1 \in {"aB", "a_b", "_aB"}, k2 \in {"c", "_c"}}

BurgerBoxes ==
  {Arr(<<o>>) : o \in Burgers}
    \cup UNION {ObjectsOver(<<k>>, Burgers) : k \in {"aB", "a_b", "_aB"}}

TreeLeaves ==
  {SetProp(SetProp(EmptyObj, k, a), "c", Arr(<<>>)) :
     k \in {"aB", "a_b"}, a \in {Num(1), Str("1")}}

Trees ==
  TreeLeaves
    \cup {SetProp(SetProp(EmptyObj, k, Num(1)), "c", Arr(items)) :
             k \in {"aB", "a_b"},
             items \in SeqsUpTo(TreeLeaves \cup {Num(1)}, MaxLen) \ {<<>>}}

\* Validators of one value, with customized errors along the chain.
ChainValidators ==
  {string, number}
  \cup {ChainOf(c) : c \in Chains}
  \cup
  {   withError(withError(string, "f1"), "f2"),
   mapErrors(string, "relabel"),
   mapErrors(number, "dropAll"),
   withError(mapErrors(string, "relabel"), "f1"),
   then(withError(string, "f1"), withError(filter(unknown, "notGOD"), "f2")),
   then(map(string, "wrap"), array(string)),
   and(string, minSize(2)), map(string, "wrap"), filter(string, "notGOD"),
   and(array(number), minSize(1)), map(mapErrors(number, "dropAll"), "wrap"),
   filter(map(string, "wrap"), "notGOD"),
   union(<<Null, Str("1"), Bool(TRUE), Num(1)>>),
   optional(string), nullable(number),
   optional(map(string, "wrap")), nullable(map(unknown, "wrap")),
   optional(withError(number, "f1")), nullable(withError(string, "f1")),
   default(string, Str("yes")), default(optional(string), Str("yes")),
   default(union(<<null, string>>), Str("yes")),
   default(withError(number, "f1"), Num(0)),
   default(map(unknown, "toUndefined"), Str("yes"))}

\* Validators of lists and of objects with the fields a and b.
SiblingValidators ==
  {array(number), array(userId), array(mapErrors(number, "dropAll")),
   array(and(string, minSize(1))), array(map(number, "wrap")),
   tuple(<<userId, userId>>), tuple(<<number, string>>), tuple(<<>>),
   tuple(<<number>>),
   object(<< <<"a", userId>>, <<"b", userId>> >>),
   object(<< <<"a", number>>, <<"b", optional(string)>> >>),
   object(<< <<"a", number>>, <<"c", optional(string)>> >>),
   object(<< <<"b", map(unknown, "toUndefined")>>, <<"a", unknown>> >>),
   object(<< <<"a", mapErrors(number, "dropAll")>>, <<"b", string>> >>),
   dictionary(withError(union(<<Str("a"), Str("0")>>), "bad key"), userId),
   dictionary(string, number),
   dictionary(map(string, "underscore"), number),
   dictionary(string, mapErrors(number, "dropAll")),
   union(<<userId, withError(number, "f2"), array(userId)>>),
   union(<<array(number), object(<< <<"a", number>> >>)>>),
   intersection(<<object(<< <<"a", number>> >>),
                  object(<< <<"b", string>>, <<"a", unknown>> >>)>>),
   intersection(<<object(<< <<"a", withError(number, "f1")>> >>),
                  object(<< <<"b", withError(string, "f2")>> >>)>>),
   intersection(<<withError(array(number), "f1"),
                  array(withError(number, "f2"))>>),
   intersection(<<mapErrors(array(string), "dropAll"), array(number)>>),
   intersection(<<object(<< <<"a", map(number, "wrap")>>, <<"b", unknown>> >>),
                  object(<< <<"a", number>> >>)>>),
   intersection(<<array(unknown), tuple(<<map(unknown, "wrap")>>)>>),
   intersection(<<withError(string, "f1"), withError(number, "f2")>>),
   intersection(<<withError(object(<< <<"a", number>> >>), "f1"),
                  withError(array(number), "f2")>>),
   userChatAction, chatActionOfIntersections}

\* Validators of user objects, one level deeper.
UserValidators ==
  {user, array(user), tuple(<<user, user>>),
   object(<< <<"a", user>>, <<"b", user>> >>),
   dictionary(string, user),
   withError(array(user), "f1"),
   withError(tuple(<<user, user>>), "f2"),
   withError(object(<< <<"a", user>>, <<"b", user>> >>), "f2"),
   withError(dictionary(withError(union(<<Str("a")>>), "bad key"), user), "f2"),
   withError(union(<<user, array(user)>>), "f2"),
   idAction, array(idAction)}

\* Validators whose object fields need a key transformation.
BurgerValidators ==
  {burger, array(burger), tuple(<<burger>>),
   object(<< <<"aB", burger>> >>),
   dictionary(string, burger),
   union(<<number, burger>>),
   intersection(<<burger, array(burger)>>),
   then(unknown, burger),
   withError(and(array(burger), minSize(1)), "f2"),
   cooking}

\* Trees one level deeper.
DeepTrees ==
  {SetProp(SetProp(EmptyObj, "aB", Num(1)), "c", Arr(<<t>>)) :
     t \in {tt \in Trees : Len(GetProp(tt, "c").items) = 1}}

\* Recursive validators.
TreeValidators == {tree, array(tree)}

\* Validators of lists of lists.
ListValidators ==
  {array(tuple(<<number, string>>)), array(array(number)),
   array(then(map(array(unknown), "wrap"), array(array(number)))),
   tuple(<<array(number), tuple(<<>>)>>),
   array(withError(array(withError(number, "f1")), "f2"))}

ListsOfLists ==
  {Arr(items) :
     items \in SeqsUpTo({Arr(<<>>), Arr(<<Num(1)>>), Arr(<<Num(1), Str("1")>>),
                         Arr(<<Str("1"), Num(1)>>)}, MaxLen)}

\* The arrays of the test 'can validate an array'.
numArray == Arr(<<Num(1), Num(2), Num(3)>>)

badNumArray == Arr(<<Num(1), Str("oops"), Str("fuu")>>)

Validators ==
  ChainValidators \cup SiblingValidators \cup UserValidators
    \cup BurgerValidators \cup TreeValidators \cup ListValidators

Scenarios ==
  (Validators \X Leaves)
    \cup ((ChainValidators \cup SiblingValidators) \X (LeafArrays \cup LeafObjects))
    \cup (UserValidators \X (Users \cup UserArrays \cup UserObjects))
    \cup (BurgerValidators \X (Burgers \cup BurgerBoxes))
    \cup (TreeValidators \X (Trees \cup DeepTrees \cup {Arr(<<o>>) : o \in TreeLeaves}))
    \cup (ListValidators \X ListsOfLists)
    \cup ({array(number), array(string),
           withError(tuple(<<number, withError(number, "f1"), string>>), "f2")}
            \X {numArray, badNumArray})

TransformObjectKeys == {"undefined", "snakeCaseTransformation", "underscorePrefix"}

KeyAlphabet == {"a", "d", "B", "C", "1", "_"}

Keys == SeqsUpTo(KeyAlphabet, MaxKeyLen)

----------------------------------------------------------------------------
(* The state machine: a caller holding a validator, an input and a         *)
(* Configuration object calls validate, with the object or without it.     *)
(* started is the content of the context the last call began with.         *)

NoResult == [none |-> TRUE]

Init ==
  /\ \E sc \in Scenarios : validator = sc[1] /\ value = sc[2]
  /\ config \in {Context(t, FALSE) : t \in TransformObjectKeys}
  /\ started = Undefined
  /\ result = NoResult
  /\ log = <<>>
  /\ called = "none"
  /\ key = <<>>
  /\ snake = <<>>

\* What the caller of validate gets: the outcome, or the exception that
\* left the call, with the trace up to the throw.  No schema the model
\* validates with a Configuration object throws.
Exception(error) == [exception |-> error]

Returned(out) ==
  LET throws == {i \in 1..Len(out.log) : out.log[i].e = "throw"}
      first == CHOOSE i \in throws : \A j \in throws : i <= j
  IN IF throws = {} THEN out
     ELSE Out(Exception(out.log[first].error), out.c, SubSeq(out.log, 1, first))

\* validator.validate(value, config)
ValidateWithConfiguration ==
  \E validation \in {validate(validator, value, config, "")} :
    \E out \in {Returned(validation)} :
      /\ started' = Spread(config)
      /\ result' = out.r
      /\ config' = out.c
      /\ log' = out.log
      /\ called' = "validate(value, config)"
      /\ UNCHANGED <<validator, value, key, snake>>

\* validator.validate(value)
ValidateDefault ==
  \E validation \in {validate(validator, value, Undefined, "")} :
    \E out \in {Returned(validation)} :
      /\ started' = Spread(defaultContext)
      /\ result' = out.r
      /\ log' = out.log
      /\ called' = "validate(value)"
      /\ UNCHANGED <<validator, value, config, key, snake>>

\* The caller writes a new Configuration object.
NewConfiguration ==
  /\ called # "none"
  /\ \E t \in TransformObjectKeys : config' = Context(t, FALSE)
  /\ started' = Undefined
  /\ result' = NoResult
  /\ log' = <<>>
  /\ called' = "none"
  /\ UNCHANGED <<validator, value, key, snake>>

Next == ValidateWithConfiguration \/ ValidateDefault \/ NewConfiguration

Spec == Init /\ [][Next]_vars

(* snakeCaseTransformation applied to the keys of the alphabet *)

SnakeInit ==
  /\ key \in Keys
  /\ snake = <<>>
  /\ validator = unknown
  /\ value = Undefined
  /\ config = Context("undefined", FALSE)
  /\ started = Undefined
  /\ result = NoResult
  /\ log = <<>>
  /\ called = "none"

SnakeCase ==
  /\ called = "none"
  /\ snake' = snakeCaseTransformation(key)
  /\ called' = "snakeCaseTransformation(key)"
  /\ UNCHANGED <<validator, value, config, started, result, log, key>>

SnakeNext == SnakeCase

SnakeSpec == SnakeInit /\ [][SnakeNext]_vars

(* numberFromString and intFromString applied to the strings over the     *)
(* lexemes of numeric literals and to values that are no strings          *)

NumberLexemes == {"1", "9", ".", "-", "e", "a", "Infinity"}

NumberStrings == {StrOf(cs) : cs \in SeqsUpTo(NumberLexemes, MaxNumberLen)}

ParseInit ==
  /\ validator \in {numberFromString, intFromString}
  /\ value \in NumberStrings \cup {Undefined, Null, Num(1)}
  /\ config = Context("undefined", FALSE)
  /\ started = Undefined
  /\ result = NoResult
  /\ log = <<>>
  /\ called = "none"
  /\ key = <<>>
  /\ snake = <<>>

ParseNext == ValidateDefault

ParseSpec == ParseInit /\ [][ParseNext]_vars

(* validate called without a Configuration object on the schemas of the   *)
(* model and on schemas that refine a nullable or unknown value by minSize *)

SizedValidators ==
  {and(nullable(string), minSize(1)), and(optional(array(number)), minSize(1)),
   and(unknown, minSize(1)),
   withError(and(unknown, minSize(2)), "f1"),
   array(and(nullable(string), minSize(1))),
   tuple(<<number, and(unknown, minSize(1))>>),
   object(<< <<"a", and(optional(string), minSize(1))>>, <<"b", string>> >>),
   dictionary(string, and(nullable(number), minSize(0))),
   union(<<and(nullable(number), minSize(1)), string>>),
   intersection(<<and(unknown, minSize(1)), withError(number, "f2")>>),
   then(nullable(string), and(unknown, minSize(1)))}

TotalInit ==
  /\ \E sc \in Scenarios \cup (SizedValidators \X (Leaves \cup LeafArrays \cup LeafObjects)) :
       validator = sc[1] /\ value = sc[2]
  /\ config = Context("undefined", FALSE)
  /\ started = Undefined
  /\ result = NoResult
  /\ log = <<>>
  /\ called = "none"
  /\ key = <<>>
  /\ snake = <<>>

TotalNext == ValidateDefault

TotalSpec == TotalInit /\ [][TotalNext]_vars

(* validate called on inputs whose objects and arrays have identities *)

\* The value v with the identity id for its root and, for the child at
\* position i of a node, ten times the node's identity plus i.
RECURSIVE Identified(_, _)
Identified(v, id) ==
  CASE v.t = "array" ->
         [t |-> "array",
          items |-> [i \in 1..Len(v.items) |-> Identified(v.items[i], 10 * id + i)],
          id |-> id]
    [] v.t = "object" ->
         [t |-> "object", keys |-> v.keys,
          get |-> [k \in SeqToSet(v.keys) |->
                     Identified(v.get[k],
                                10 * id + (CHOOSE i \in 1..Len(v.keys) : v.keys[i] = k))],
          id |-> id]
    [] OTHER -> v

\* Schemas that rewrite keys, replace values and hand parts of the input on.
FrameValidators ==
  {dictionary(map(string, "underscore"), unknown),
   dictionary(map(string, "underscore"), default(optional(user), Str("yes"))),
   default(unknown, Str("yes")), map(unknown, "wrap"), array(unknown),
   object(<< <<"a", default(unknown, Str("yes"))>>, <<"b", map(unknown, "wrap")>> >>),
   object(<< <<"aB", unknown>>, <<"c", default(optional(number), Num(0))>> >>),
   intersection(<<unknown, dictionary(map(string, "underscore"), unknown)>>),
   then(unknown, dictionary(map(string, "underscore"), array(unknown))),
   then(map(unknown, "wrap"), tuple(<<dictionary(string, unknown)>>))}

FrameInputs ==
  {Identified(v, 1) :
     v \in LeafObjects \cup UserArrays \cup UserObjects \cup Burgers \cup BurgerBoxes
             \cup ListsOfLists}

FrameInit ==
  /\ validator \in FrameValidators \cup UserValidators \cup BurgerValidators
  /\ value \in FrameInputs
  /\ config \in {Context(t, FALSE) : t \in TransformObjectKeys}
  /\ started = Undefined
  /\ result = NoResult
  /\ log = <<>>
  /\ called = "none"
  /\ key = <<>>
  /\ snake = <<>>

FrameNext == ValidateWithConfiguration \/ ValidateDefault

FrameSpec == FrameInit /\ [][FrameNext]_vars

----------------------------------------------------------------------------
(* Properties *)

Validated == called \in {"validate(value)", "validate(value, config)"}

ErrorsOf(r) == IF r.ok THEN <<>> ELSE r.errors

\* The calls of error function f in the trace.
CallsOf(lg, fs) ==
  Cardinality({i \in 1..Len(lg) : lg[i].e = "call" /\ lg[i].f \in fs})

\* C1: every top-level validate call starts with the customization flag
\* unset, also when the caller passes its Configuration object again: the
\* result of validate(value, config) is the result a fresh copy of the
\* configuration gives.
C1_ConfigurationCallsStartUnflagged ==
  called = "validate(value, config)" =>
    result = validate(validator, value,
                      Context(config.transformObjectKeys, FALSE), "").r

\* C2: a chain S.withError(f1).and(fn).withError(f2).filter(pred).withError(f3)
\* validated from a context whose flag is unset reports f1(input) when S
\* fails, f2(input) when fn fails, f3(input) when the filter fails, and the
\* validated value otherwise; a failure is one error at the current path
\* and exactly one of the three error functions was called.
C2_ChainReportsFirstCustomization ==
  \A c \in Chains :
    (Validated /\ validator = ChainOf(c) /\ ~started.hadCustomError) =>
      LET s == validate(c.S, value, started, "").r
          custom(f) == failure("", CallErrorFunction(f, value))
          fired == CallsOf(log, {c.f1, c.f2, c.f3})
      IN IF ~s.ok THEN result = custom(c.f1) /\ fired = 1
         ELSE IF ~CallFn(c.fn, s.value).ok THEN result = custom(c.f2) /\ fired = 1
         ELSE IF ~Predicate(c.pred, s.value) THEN result = custom(c.f3) /\ fired = 1
         ELSE result = Ok(s.value) /\ fired = 0

\* C2 witness: S accepted the input, the refinement rejected it and the
\* second error function gave the one error.
C2_Witness ==
  /\ Validated
  /\ validator = customErrorChain(string)
  /\ value = Str("1")
  /\ result = failure("", CallErrorFunction("f2", Str("1")))

\* What the children of V report when each is validated on its own with a
\* copy of the context V was given: array and tuple elements, object
\* fields, dictionary keys and values.
SiblingErrors(V, v, context) ==
  CASE V.k = "array" ->
         FlatSeq([i \in 1..Len(v.items) |->
           ErrorsOf(validate(V.validator, v.items[i], Spread(context),
                             getPath(String(i - 1), "")).r)])
    [] V.k = "tuple" ->
         FlatSeq([i \in 1..Len(v.items) |->
           ErrorsOf(validate(V.validators[i], v.items[i], Spread(context),
                             getPath(String(i - 1), "")).r)])
    [] V.k = "object" ->
         FlatSeq([i \in 1..Len(V.props) |->
           LET name == transformedKeyOf(context, V.props[i][1])
           IN ErrorsOf(validate(V.props[i][2], GetProp(v, name),
                                Spread(context), getPath(name, "")).r)])
    [] V.k = "dictionary" ->
         FlatSeq([i \in 1..Len(OwnKeys(v)) |->
           LET name == OwnKeys(v)[i]
           IN prefixErrors(ErrorsOf(validate(V.domain, Str(name), Spread(context),
                                             getPath(name, "")).r),
                           getPath(name, ""), "key error: $1")
                \o prefixErrors(ErrorsOf(validate(V.codomain, GetProp(v, name),
                                                  Spread(context),
                                                  getPath(name, "")).r),
                                getPath(name, ""), "value error: $1")])

\* V delegates to one child per element, field or entry of v.
HasSiblings(V, v) ==
  \/ V.k = "array" /\ v.t = "array"
  \/ V.k = "tuple" /\ v.t = "array" /\ Len(v.items) = Len(V.validators)
  \/ V.k \in {"object", "dictionary"} /\ v.t \in {"object", "array"}

\* C3: within one validate call a customization that fires for one array
\* or tuple element, object field, dictionary key or value or union
\* alternative never changes what a sibling reports: the errors of the
\* call are, sibling after sibling, the errors each child reports when it
\* is validated alone.
C3_SiblingsCustomizeIndependently ==
  Validated =>
    /\ HasSiblings(validator, value) =>
         ErrorsOf(result) = SiblingErrors(validator, value, started)
    /\ (validator.k = "union" /\ ~result.ok) =>
         result.errors[1].message.detailString =
           [i \in 1..Len(validator.union) |->
              validate(validator.union[i], value, Spread(started), "").r.errors]

\* C3 witness: two items of one array failed and each reports the message
\* of its own customization.
C3_Witness ==
  /\ Validated
  /\ validator = array(userId)
  /\ ~result.ok
  /\ Len(result.errors) = 2
  /\ result.errors[1].message.m = "user id is mandatory"
  /\ result.errors[2].message.m = "min size is 1"

\* The outcome of every child array, tuple or object delegates to, in index
\* or declaration order, each validated on its own.
ChildOutcomes(V, v, context) ==
  CASE V.k = "array" ->
         [i \in 1..Len(v.items) |->
            validate(V.validator, v.items[i], Spread(context),
                     getPath(String(i - 1), ""))]
    [] V.k = "tuple" ->
         [i \in 1..Len(v.items) |->
            validate(V.validators[i], v.items[i], Spread(context),
                     getPath(String(i - 1), ""))]
    [] V.k = "object" ->
         [i \in 1..Len(V.props) |->
            LET name == transformedKeyOf(context, V.props[i][1])
            IN validate(V.props[i][2], GetProp(v, name), Spread(context),
                        getPath(name, ""))]

HasChildren(V, v) ==
  \/ V.k = "array" /\ v.t = "array"
  \/ V.k = "tuple" /\ v.t = "array" /\ Len(v.items) = Len(V.validators)
  \/ V.k = "object" /\ v.t \in {"object", "array"}

\* The validators that ran, in order, without the field and object events.
Runs(lg) == SelectSeq(lg, LAMBDA event : event.e \in {"validate", "call"})

\* C4: array, tuple (on a list of its length) and object validate every
\* child, also after a failure: the validators that ran are those of every
\* child in order, the call succeeds exactly when no child failed, and a
\* failure lists the errors of the failing children in order.
C4_ChildrenAllValidatedAndAccumulated ==
  (Validated /\ HasChildren(validator, value)) =>
    LET children == ChildOutcomes(validator, value, started)
        n == Len(children)
    IN /\ Runs(log) = <<Entered(validator, "")>>
                        \o FlatSeq([i \in 1..n |-> Runs(children[i].log)])
       /\ result.ok <=> \A i \in 1..n : children[i].r.ok
       /\ ~result.ok =>
            result.errors = FlatSeq([i \in 1..n |-> ErrorsOf(children[i].r)])

\* The outcomes of the children of an intersection, each validated with the
\* context object its predecessor left.
RECURSIVE IntersectionOutcomes(_, _, _, _)
IntersectionOutcomes(V, v, context, i) ==
  IF i > Len(V.validators) THEN <<>>
  ELSE LET validation == validate(V.validators[i], v, context, "")
       IN <<validation>> \o IntersectionOutcomes(V, v, validation.c, i + 1)

\* C5: intersection validates the input against every child, also after a
\* failure; it succeeds only if every child succeeds and a failure lists
\* the errors of all failing children in child order.
C5_IntersectionAccumulates ==
  (Validated /\ validator.k = "intersection") =>
    LET children == IntersectionOutcomes(validator, value, started, 1)
        n == Len(children)
    IN /\ Runs(log) = <<Entered(validator, "")>>
                        \o FlatSeq([i \in 1..n |-> Runs(children[i].log)])
       /\ result.ok => \A i \in 1..n : children[i].r.ok
       /\ ~result.ok =>
            result.errors = FlatSeq([i \in 1..n |-> ErrorsOf(children[i].r)])

\* C6: every failure validate returns carries at least one error.
C6_FailuresCarryErrors ==
  Validated => (result.ok \/ Len(result.errors) > 0)

\* The result of field i of the object validator V on the input v.
FieldResult(V, v, context, i) ==
  LET name == transformedKeyOf(context, V.props[i][1])
  IN validate(V.props[i][2], GetProp(v, name), Spread(context),
              getPath(name, "")).r

DeclaredNames(V) == {V.props[i][1] : i \in 1..Len(V.props)}

\* C7: on success object(props) returns an object whose keys are exactly
\* the declared names whose validated value is not undefined, once each,
\* every one holding the output of its field's validator; an input key that
\* is not declared is not in the output, and a declared field validated to
\* undefined is absent.
C7_ObjectOutputHoldsDeclaredDefinedFields ==
  (Validated /\ validator.k = "object" /\ result.ok) =>
    LET fields == [i \in 1..Len(validator.props) |->
                     FieldResult(validator, value, started, i)]
        kept == {i \in 1..Len(validator.props) :
                   fields[i].ok /\ fields[i].value # Undefined}
        output == result.value
    IN /\ output.t = "object"
       /\ SeqToSet(output.keys) = {validator.props[i][1] : i \in kept}
       /\ Len(output.keys) = Cardinality(kept)
       /\ \A i \in kept : output.get[validator.props[i][1]] = fields[i].value
       /\ \A name \in SeqToSet(output.keys) : output.get[name] # Undefined
       /\ \A name \in SeqToSet(OwnKeys(value)) \ DeclaredNames(validator) :
            name \notin SeqToSet(output.keys)

\* C7 witness: the input key b is not declared, the declared field c is
\* validated to undefined, and the output holds the field a alone.
C7_Witness ==
  /\ Validated
  /\ validator = object(<< <<"a", number>>, <<"c", optional(string)>> >>)
  /\ value = SetProp(SetProp(EmptyObj, "a", Num(1)), "b", Str("1"))
  /\ result = Ok(SetProp(EmptyObj, "a", Num(1)))

\* What burger returns for the object o at path p when the keys of the
\* input are the declared keys transformed by t and no customization has
\* fired before.
burgerExpected(o, t, p) ==
  LET aB == ApplyTransform(t, "aB")
      c == ApplyTransform(t, "c")
      errors ==
        (IF GetProp(o, aB).t = "number" THEN <<>>
         ELSE <<[path |-> getPath(aB, p),
                 message |-> typeFailureMessage("number", GetProp(o, aB))]>>)
        \o (IF GetProp(o, c).t = "string" THEN <<>>
            ELSE <<[path |-> getPath(c, p),
                    message |-> CallErrorFunction("f1", GetProp(o, c))]>>)
  IN IF Len(errors) > 0 THEN Err(errors)
     ELSE Ok(SetProp(SetProp(EmptyObj, "aB", GetProp(o, aB)), "c", GetProp(o, c)))

FieldReads(lg) == {lg[i] : i \in {j \in 1..Len(lg) : lg[j].e = "field"}}

ObjectsBuilt(lg) == {lg[i] : i \in {j \in 1..Len(lg) : lg[j].e = "object"}}

\* C8: in a call with transformObjectKeys = t every object validator
\* reached, at any depth, reads the declared field k under the key t(k),
\* gives the field the path segment t(k) so that the field's errors lie at
\* that path or below it, and writes the validated value under k.  The
\* burger schema at the root, in an array and in an object field returns
\* what reading the transformed keys gives.
C8_KeysTransformedAtEveryDepth ==
  (Validated /\ started.transformObjectKeys # "undefined") =>
    LET t == started.transformObjectKeys
    IN /\ \A f \in FieldReads(log) :
            /\ f.transformedKey = ApplyTransform(t, f.key)
            /\ f.val = GetProp(f.v, ApplyTransform(t, f.key))
            /\ f.p = getPath(ApplyTransform(t, f.key), f.parent)
            /\ ~f.r.ok =>
                 \A i \in 1..Len(f.r.errors) :
                   f.r.errors[i].path \in {f.p} \cup f.below
       /\ \A o \in ObjectsBuilt(log) :
            o.r.ok =>
              \A i \in 1..Len(o.reads) :
                (o.reads[i].r.ok /\ o.reads[i].r.value # Undefined) =>
                  /\ o.reads[i].key \in SeqToSet(o.r.value.keys)
                  /\ o.r.value.get[o.reads[i].key] = o.reads[i].r.value
       /\ (~started.hadCustomError /\ validator = burger
             /\ value.t = "object") =>
            result = burgerExpected(value, t, "")
       /\ (~started.hadCustomError /\ validator = array(burger)
             /\ value.t = "array" /\ Len(value.items) = 1
             /\ value.items[1].t = "object") =>
            LET expected == burgerExpected(value.items[1], t, "0")
            IN result = IF expected.ok THEN Ok(Arr(<<expected.value>>))
                        ELSE expected
       /\ (~started.hadCustomError
             /\ validator = object(<< <<"aB", burger>> >>)
             /\ value.t = "object"
             /\ GetProp(value, ApplyTransform(t, "aB")).t = "object") =>
            LET expected == burgerExpected(GetProp(value, ApplyTransform(t, "aB")),
                                           t, ApplyTransform(t, "aB"))
            IN result = IF expected.ok
                        THEN Ok(SetProp(EmptyObj, "aB", expected.value))
                        ELSE expected

\* C8 witness: under snakeCaseTransformation the nested burger was read
\* from a_b, its field c was read from c and rejected at path a_b.c.
C8_Witness ==
  /\ Validated
  /\ started = Context("snakeCaseTransformation", FALSE)
  /\ validator = object(<< <<"aB", burger>> >>)
  /\ value.t = "object"
  /\ ~result.ok
  /\ Len(result.errors) = 1
  /\ result.errors[1].path = "a_b.c"
  /\ result.errors[1].message = CallErrorFunction("f1", Num(1))

\* s.replace(/([a-z0-9])([A-Z])/g, '$1_$2') scanning from index i: the
\* second step as the specification words it.
RECURSIVE lowerOrDigitThenUpper(_, _)
lowerOrDigitThenUpper(s, i) ==
  IF i > Len(s) THEN <<>>
  ELSE IF i < Len(s) /\ (IsLower(s[i]) \/ IsDigit(s[i])) /\ IsUpper(s[i + 1])
       THEN <<s[i], "_", s[i + 1]>> \o lowerOrDigitThenUpper(s, i + 2)
       ELSE <<s[i]>> \o lowerOrDigitThenUpper(s, i + 1)

\* C9: snakeCaseTransformation splits the acronym-to-word boundaries, puts
\* an underscore between every lowercase letter or digit and the uppercase
\* letter that follows it, and lowercases the result.
C9_SnakeCaseSplitsAfterLowerOrDigit ==
  called = "snakeCaseTransformation(key)" =>
    snake = toLowerCase(lowerOrDigitThenUpper(upperThenLower(key, 1), 1))

\* The first alternative of a union that accepts, 0 when none does.
FirstAccepting(outcomes) ==
  IF \E i \in 1..Len(outcomes) : outcomes[i].r.ok
  THEN CHOOSE i \in 1..Len(outcomes) :
         outcomes[i].r.ok /\ \A j \in 1..(i - 1) : ~outcomes[j].r.ok
  ELSE 0

\* C10: a union of validators returns the result of the first alternative
\* that accepts the input and runs no alternative after it; when every
\* alternative fails it returns exactly one error, at the union's own
\* path, whatever the errors of the alternatives are.
C10_UnionFirstSuccessOrOneError ==
  (Validated /\ validator.k = "union") =>
    LET outcomes == [i \in 1..Len(validator.union) |->
                       validate(validator.union[i], value, Spread(started), "")]
        first == FirstAccepting(outcomes)
        ran == IF first = 0 THEN Len(outcomes) ELSE first
    IN /\ log = <<Entered(validator, "")>>
                  \o FlatSeq([i \in 1..ran |-> outcomes[i].log])
       /\ first # 0 => result = outcomes[first].r
       /\ first = 0 =>
            /\ ~result.ok
            /\ Len(result.errors) = 1
            /\ result.errors[1].path = ""

\* C10 witness: the second alternative reported two errors at the paths
\* aB and c, and the union one error at its own path.
C10_Witness ==
  /\ Validated
  /\ validator = union(<<number, burger>>)
  /\ value.t = "object"
  /\ ~result.ok
  /\ Len(result.errors) = 1
  /\ result.errors[1].path = ""
  /\ Len(result.errors[1].message.detailString[2]) = 2

\* The literals a union of literals was called with.
LiteralsOf(V) == {V.union[i].literal : i \in 1..Len(V.union)}

\* C11: a union called with bare literals, null as first argument included,
\* accepts the input exactly when it is strictly equal to one of them and
\* then returns it; otherwise it fails with the single error 'The value x
\* is not part of the union' at the current path; it accepts exactly what
\* the union of the validators literal(l1), .., literal(ln) accepts.
C11_UnionOfLiteralsAcceptsItsLiterals ==
  (Validated /\ validator.k = "unionOfLiterals") =>
    /\ result.ok <=> value \in LiteralsOf(validator)
    /\ result.ok => result.value = value
    /\ ~result.ok =>
         result = failure("", [m |-> "The value $1 is not part of the union",
                               v |-> value])
    /\ result.ok <=>
         validate(union(validator.union), value, Spread(started), "").r.ok

\* C11 witness: null is the first literal and the input null is accepted.
C11_Witness ==
  /\ Validated
  /\ validator = union(<<Null, Str("1"), Bool(TRUE), Num(1)>>)
  /\ validator.k = "unionOfLiterals"
  /\ value = Null
  /\ result = Ok(Null)

\* What the claim gives for discriminatedUnion(key, M1..Mn) on x at path p:
\* one error at p for a nullish x, one error at p.key for a missing or
\* unknown discriminant, the result of the owning member otherwise.
DiscriminatedResult(V, x, context, p) ==
  LET owners == {i \in 1..Len(V.vs) :
                   GetProp(x, V.typeKey) \in DiscriminantLiterals(V.vs[i], V.typeKey)}
  IN IF x \in {Null, Undefined}
     THEN failure(p, [m |-> "union member is nullish: $1", v |-> x])
     ELSE IF GetProp(x, V.typeKey) = Undefined
     THEN failure(getPath(V.typeKey, p),
                  [m |-> "discriminant key (\"$1\") missing in: $2",
                   typeKey |-> V.typeKey, v |-> x])
     ELSE IF owners = {}
     THEN failure(getPath(V.typeKey, p),
                  [m |-> "discriminant value (\"$1\": \"$2\") not part of the union",
                   typeKey |-> V.typeKey, typeValue |-> GetProp(x, V.typeKey)])
     ELSE validate(V.vs[CHOOSE i \in owners : TRUE], x, context, p).r

\* No literal is the discriminant of two members.
DistinctDiscriminants(V) ==
  \A i, j \in 1..Len(V.vs) :
    i # j => DiscriminantLiterals(V.vs[i], V.typeKey)
               \cap DiscriminantLiterals(V.vs[j], V.typeKey) = {}

\* C12: discriminatedUnion(key, M1..Mn) at path P fails with one error at P
\* for a null or undefined input, with one error at P.key when x[key] is
\* undefined or is no member's discriminant literal, and returns the result
\* of the member owning x[key] on the whole input at P otherwise; P is the
\* root path, or the item's path below an array.
C12_DiscriminatedUnionDispatches ==
  Validated =>
    /\ validator.k = "discriminatedUnion" =>
         result = DiscriminatedResult(validator, value, started, "")
    /\ (validator.k = "array" /\ validator.validator.k = "discriminatedUnion"
          /\ value.t = "array") =>
         ErrorsOf(result) =
           FlatSeq([i \in 1..Len(value.items) |->
                      ErrorsOf(DiscriminatedResult(validator.validator,
                                                   value.items[i], Spread(started),
                                                   String(i - 1)))])

\* C12 witness: below an array the first item has no discriminant key and
\* the second a discriminant no member owns: one error each, at 0.id and 1.id.
C12_Witness ==
  /\ Validated
  /\ validator = array(idAction)
  /\ ~result.ok
  /\ Len(result.errors) = 2
  /\ result.errors[1].path = "0.id"
  /\ result.errors[1].message.m = "discriminant key (\"$1\") missing in: $2"
  /\ result.errors[2].path = "1.id"
  /\ result.errors[2].message.m
       = "discriminant value (\"$1\": \"$2\") not part of the union"

\* C13: for members with pairwise distinct discriminant literals,
\* discriminatedUnion(key, M1..Mn) and union(M1..Mn) accept the same inputs
\* and return equal values on them.
C13_DiscriminatedUnionAcceptsAsUnion ==
  (Validated /\ validator.k = "discriminatedUnion"
     /\ DistinctDiscriminants(validator)) =>
    LET asUnion == validate(union(validator.vs), value, started, "").r
    IN /\ result.ok <=> asUnion.ok
       /\ result.ok => result.value = asUnion.value

\* C14: V.default(d) returns the failure of V.nullable() when that fails,
\* success with d when V.nullable() succeeds with null or undefined, and
\* the success of V.nullable() unchanged otherwise.
C14_DefaultReplacesNullishOnly ==
  (Validated /\ validator.k = "and" /\ validator.fn.f = "default") =>
    LET asNullable == validate(validator.validator, value, started, "").r
    IN IF ~asNullable.ok THEN result = asNullable
       ELSE IF asNullable.value \in {Null, Undefined}
       THEN result = Ok(validator.fn.defaultValue)
       ELSE result = asNullable

\* C14 witness: string rejects undefined and string.default('yes') answers
\* with the default value.
C14_Witness ==
  /\ Validated
  /\ validator = default(string, Str("yes"))
  /\ value = Undefined
  /\ ~validate(string, value, started, "").r.ok
  /\ result = Ok(Str("yes"))

\* The validators the model makes optional and nullable.
OptionalOperands ==
  {string, map(string, "wrap"), withError(number, "f1")}

NullableOperands ==
  {number, map(unknown, "wrap"), withError(string, "f1")}

\* C15: V.optional() accepts x iff V accepts x or x is undefined and
\* V.nullable() iff V accepts x or x is null or undefined; when V accepts x
\* the result is V's own, otherwise the value is x itself.
C15_OptionalAndNullableExtendTheValidator ==
  Validated =>
    LET own(V) == validate(V, value, Spread(started), "").r
        extends(V, extra) ==
          /\ result.ok <=> (own(V).ok \/ value \in extra)
          /\ own(V).ok => result = own(V)
          /\ (~own(V).ok /\ value \in extra) => result = Ok(value)
    IN /\ \A V \in OptionalOperands :
            validator = optional(V) => extends(V, {Undefined})
       /\ \A V \in NullableOperands :
            validator = nullable(V) => extends(V, {Null, Undefined})

\* C15 witness: number rejects null and number.nullable() returns null.
C15_Witness ==
  /\ Validated
  /\ validator = nullable(number)
  /\ value = Null
  /\ ~validate(number, value, Spread(started), "").r.ok
  /\ result = Ok(Null)

\* What the claim gives for tuple(V1..Vn) on xs at path p: one type error
\* for a non-list, one arity error for a list of another length, the
\* positions validated one by one otherwise.
TupleResult(V, xs, context, p) ==
  IF xs.t # "array" THEN typeFailure(xs, p, "Tuple")
  ELSE IF Len(xs.items) # Len(V.validators)
  THEN failure(p, [m |-> "Expected Tuple$1, got Tuple$2",
                   expected |-> Len(V.validators), got |-> Len(xs.items)])
  ELSE LET positions == [i \in 1..Len(xs.items) |->
                           validate(V.validators[i], xs.items[i], Spread(context),
                                    getPath(String(i - 1), p)).r]
           errors == FlatSeq([i \in 1..Len(positions) |-> ErrorsOf(positions[i])])
       IN IF errors # <<>> THEN Err(errors)
          ELSE Ok(Arr([i \in 1..Len(positions) |-> positions[i].value]))

\* C16: a tuple fails on a list of another length with the one error
\* 'Expected Tuple n, got Tuple m' at its own path and validates no
\* element; tuple() accepts exactly the empty list; a non-list fails with
\* one type error at the tuple's path; a list of length n is validated
\* position by position.  The tuple's path is the root path, or the
\* item's path below an array.
C16_TupleChecksArityFirst ==
  Validated =>
    /\ validator.k = "tuple" =>
         /\ result = TupleResult(validator, value, started, "")
         /\ (value.t # "array" \/ Len(value.items) # Len(validator.validators)) =>
              /\ Runs(log) = <<Entered(validator, "")>>
              /\ ~result.ok /\ Len(result.errors) = 1
              /\ result.errors[1].path = ""
         /\ validator.validators = <<>> => (result.ok <=> value = Arr(<<>>))
    /\ (validator.k = "array" /\ validator.validator.k = "tuple"
          /\ value.t = "array") =>
         ErrorsOf(result) =
           FlatSeq([i \in 1..Len(value.items) |->
                      ErrorsOf(TupleResult(validator.validator, value.items[i],
                                           Spread(started), String(i - 1)))])

\* C16 witness: tuple(number) rejects a list of two items with the one
\* arity error, the first item being a number.
C16_Witness ==
  /\ Validated
  /\ validator = tuple(<<number>>)
  /\ value = Arr(<<Num(1), Str("1")>>)
  /\ result = failure("", [m |-> "Expected Tuple$1, got Tuple$2",
                           expected |-> 1, got |-> 2])

\* The results of the key and of the value of entry i of the input v of a
\* dictionary, each validated on its own at the entry's path.
EntryResults(V, v, context, i) ==
  LET name == OwnKeys(v)[i]
  IN [key |-> validate(V.domain, Str(name), Spread(context), getPath(name, "")).r,
      value |-> validate(V.codomain, GetProp(v, name), Spread(context),
                         getPath(name, "")).r,
      path |-> getPath(name, "")]

\* C17: a dictionary validates every key against D and its value against C
\* at the entry's path; a failure lists, entry after entry, D's errors as
\* 'key error: ...' and C's errors as 'value error: ...', all at the entry's
\* path; a success maps, for every input key, D's output for the key to C's
\* output for the value.
C17_DictionaryValidatesKeysAndValues ==
  (Validated /\ validator.k = "dictionary" /\ value.t \in {"object", "array"}) =>
    LET n == Len(OwnKeys(value))
        entry(i) == EntryResults(validator, value, started, i)
    IN /\ ~result.ok =>
            result.errors =
              FlatSeq([i \in 1..n |->
                         prefixErrors(ErrorsOf(entry(i).key), entry(i).path,
                                      "key error: $1")
                           \o prefixErrors(ErrorsOf(entry(i).value), entry(i).path,
                                           "value error: $1")])
       /\ result.ok =>
            /\ \A i \in 1..n :
                 /\ entry(i).key.ok
                 /\ entry(i).value.ok
                 /\ PropertyKey(entry(i).key.value) \in SeqToSet(result.value.keys)
                 /\ result.value.get[PropertyKey(entry(i).key.value)]
                      = entry(i).value.value
            /\ Len(result.value.keys) = n

\* What the claim gives for A.then(B) on x at path p: A's failure, or the
\* outcome of B on A's output value, with the runs made.
ThenOutcome(V, x, context, p) ==
  LET first == validate(V.self, x, context, p)
      second == validate(V.validator, first.r.value, first.c, p)
  IN IF ~first.r.ok
     THEN [r |-> first.r, runs |-> Runs(first.log)]
     ELSE [r |-> second.r, runs |-> Runs(first.log) \o Runs(second.log)]

\* C18: in A.then(B) B runs only if A succeeds, on A's output value, at the
\* same path and with the same configuration; if A fails B does not run and
\* A's failure is the result.  The path is the root path, or the item's
\* path below an array.
C18_ThenFeedsTheOutputForward ==
  Validated =>
    /\ validator.k = "then" =>
         LET expected == ThenOutcome(validator, value, started, "")
             first == validate(validator.self, value, started, "")
         IN /\ result = expected.r
            /\ Runs(log) = <<Entered(validator, "")>> \o expected.runs
            /\ first.c.transformObjectKeys = started.transformObjectKeys
    /\ (validator.k = "array" /\ validator.validator.k = "then"
          /\ value.t = "array") =>
         ErrorsOf(result) =
           FlatSeq([i \in 1..Len(value.items) |->
                      ErrorsOf(ThenOutcome(validator.validator, value.items[i],
                                           Spread(started), String(i - 1)).r)])

\* C18 witness: string.map(wrap) turned '1' into ['1'], which array(string)
\* accepted where it rejects the input '1' itself.
C18_Witness ==
  /\ Validated
  /\ validator = then(map(string, "wrap"), array(string))
  /\ value = Str("1")
  /\ ~validate(array(string), value, started, "").r.ok
  /\ result = Ok(Arr(<<Str("1")>>))

\* What the claim gives for V.and(fn), V.map(fn) and V.filter(pred) on x
\* at path p, with the runs made: V's failure without a call of fn, one
\* error at p holding fn's message, or success with fn's value.
AndOutcome(W, x, context, p) ==
  LET own == validate(W.validator, x, context, p)
      returned ==
        CASE W.fn.f = "map" -> Ok(MapFunction(W.fn.fn, own.r.value))
          [] W.fn.f = "default" -> Ok(defaultFn(W.fn.defaultValue, own.r.value))
          [] W.fn.f = "filter" ->
               IF Predicate(W.fn.fn, own.r.value) THEN Ok(own.r.value)
               ELSE ErrString([m |-> "filter error: $1\"", v |-> own.r.value])
          [] W.fn.f = "minSize" -> minSizeFn(W.fn.minSize, own.r.value)
  IN IF ~own.r.ok
     THEN [r |-> own.r, runs |-> Runs(own.log)]
     ELSE [r |-> IF returned.ok THEN Ok(returned.value)
                 ELSE Err(<<[path |-> p, message |-> returned.errors]>>),
           runs |-> Runs(own.log) \o <<Called(W.fn.f)>>]

\* C19: for V.and(fn), V.map(fn) and V.filter(pred), when V fails the
\* function is not called and the result holds V's errors; when V succeeds
\* and the function fails the result is one error at the current path with
\* the function's message; when it returns Ok(b) the result is success
\* with b; map never fails a success of V.  The current path is the root
\* path, or the item's path below an array.
C19_RefinementsRunOnSuccessOnly ==
  Validated =>
    /\ validator.k = "and" =>
         LET expected == AndOutcome(validator, value, started, "")
         IN /\ result = expected.r
            /\ Runs(log) = <<Entered(validator, "")>> \o expected.runs
            /\ (validator.fn.f \in {"map", "default"}
                  /\ validate(validator.validator, value, started, "").r.ok) =>
                 result.ok
    /\ (validator.k = "array" /\ validator.validator.k = "and"
          /\ value.t = "array") =>
         ErrorsOf(result) =
           FlatSeq([i \in 1..Len(value.items) |->
                      ErrorsOf(AndOutcome(validator.validator, value.items[i],
                                          Spread(started), String(i - 1)).r)])

\* C19 witness: below an array string accepted the second item and
\* minSize(1) rejected it: one error at the item's path with its message.
C19_Witness ==
  /\ Validated
  /\ validator = array(and(string, minSize(1)))
  /\ value = Arr(<<Str("1"), Str("")>>)
  /\ result = Err(<<[path |-> "1",
                     message |-> [m |-> "Expected a min size of $1, got $2",
                                  minSize |-> 1, size |-> 0]]>>)

\* The path of an error a child reports at the relative path q, for a child
\* reached by segment: the bare segment for the child itself, the segment,
\* a dot and q below it.
Below(segment, q) == IF q = "" THEN segment ELSE segment \o "." \o q

ErrorPaths(errors) == [i \in 1..Len(errors) |-> errors[i].path]

\* The paths the claim gives to the errors of V on v validated as a root
\* value: those of each failing child in order, led by the child's
\* segment (index, transformed object key, dictionary key), and for a
\* value V does not descend into, those V reports at the root.
RECURSIVE ExpectedPaths(_, _, _)
ExpectedPaths(V, v, context) ==
  CASE HasSiblings(V, v) /\ V.k = "array" ->
         FlatSeq([i \in 1..Len(v.items) |->
           LET below == ExpectedPaths(V.validator, v.items[i], Spread(context))
           IN [j \in 1..Len(below) |-> Below(String(i - 1), below[j])]])
    [] HasSiblings(V, v) /\ V.k = "tuple" ->
         FlatSeq([i \in 1..Len(v.items) |->
           LET below == ExpectedPaths(V.validators[i], v.items[i], Spread(context))
           IN [j \in 1..Len(below) |-> Below(String(i - 1), below[j])]])
    [] HasSiblings(V, v) /\ V.k = "object" ->
         FlatSeq([i \in 1..Len(V.props) |->
           LET name == transformedKeyOf(context, V.props[i][1])
               below == ExpectedPaths(V.props[i][2], GetProp(v, name),
                                      Spread(context))
           IN [j \in 1..Len(below) |-> Below(name, below[j])]])
    [] HasSiblings(V, v) /\ V.k = "dictionary" ->
         FlatSeq([i \in 1..Len(OwnKeys(v)) |->
           LET name == OwnKeys(v)[i]
               ofKey == ExpectedPaths(V.domain, Str(name), Spread(context))
               below == ExpectedPaths(V.codomain, GetProp(v, name),
                                      Spread(context))
           IN [j \in 1..Len(ofKey) |-> Below(name, ofKey[j])]
                \o [j \in 1..Len(below) |-> Below(name, below[j])]])
    [] OTHER -> ErrorPaths(ErrorsOf(validate(V, v, context, "").r))

Primitives ==
  {"string", "number", "boolean", "null", "undefined", "unknown", "literal"}

\* C20: the path of every error is the dot-joined segments from the value
\* given to validate down to the failing value: empty for the root value,
\* the bare index or key for a direct child, the parent's path, a dot and
\* the segment below it.
C20_PathsLeadToTheFailingValue ==
  Validated =>
    /\ ~HasSiblings(validator, value)
         /\ validator.k \in Primitives \cup {"array", "tuple", "object", "dictionary"}
         => \A i \in 1..Len(ErrorsOf(result)) : result.errors[i].path = ""
    /\ ErrorPaths(ErrorsOf(result)) = ExpectedPaths(validator, value, started)

\* The errors the claim gives for array(number) on the list items: one type
\* failure per element that is not a number, in order, at the element's
\* index as path.
NonNumericErrors(items) ==
  FlatSeq([i \in 1..Len(items) |->
             IF items[i].t = "number" THEN <<>>
             ELSE <<[path |-> String(i - 1),
                     message |-> typeFailureMessage("number", items[i])]>>])

\* C21 (amended): array(number) validated at the root fails with one error
\* per non-numeric element, at the element's index as path, without a
\* leading dot: on [1, 'oops', 'fuu'] exactly 2 errors, at '1' and '2'.
C21_ArrayErrorsAtBareIndexes ==
  (Validated /\ validator = array(number) /\ value.t = "array") =>
    /\ ErrorsOf(result) = NonNumericErrors(value.items)
    /\ value = badNumArray =>
         /\ ~result.ok
         /\ ErrorPaths(result.errors) = <<"1", "2">>

\* C21 witness: [1, 'oops', 'fuu'] was validated by array(number) and two
\* errors came back.
C21_Witness ==
  /\ Validated
  /\ validator = array(number)
  /\ value = badNumArray
  /\ ~result.ok
  /\ Len(result.errors) = 2

\* C21 as stated: the two errors of array(number) on [1, 'oops', 'fuu'] are
\* at the paths '.1' and '.2'.
C21_ArrayErrorsAtDottedIndexes ==
  (Validated /\ validator = array(number) /\ value = badNumArray) =>
    /\ ~result.ok
    /\ ErrorPaths(result.errors) = <<".1", ".2">>

\* C22: on a string numberFromString fails, with the message
\* '"<input>" is not a stringified number' at the root, exactly when the
\* parse of the string is NaN or an infinity, and succeeds with the parsed
\* number otherwise; intFromString fails in these cases and whenever the
\* parsed number is not integral, and succeeds with the number otherwise.
C22_ParsedNumbersAreFinite ==
  (Validated /\ value.t = "string") =>
    LET parsed == Number(value)
        notANumber ==
          failure("", [m |-> "\"$1\" is not a stringified number", str |-> value.s])
    IN /\ validator = numberFromString =>
            result = IF parsed.kind \in {"NaN", "Infinity"} THEN notANumber
                     ELSE Ok(parsed)
       /\ validator = intFromString =>
            IF parsed.kind \in {"NaN", "Infinity"}
            THEN ~result.ok
            ELSE IF parsed.m # 0 /\ parsed.e < 0 THEN ~result.ok
            ELSE result = Ok(parsed)

MaxOf(S) == IF S = {} THEN 0 ELSE CHOOSE x \in S : \A y \in S : y <= x

\* The nesting depth of a value: arrays and objects count one level.
RECURSIVE Depth(_)
Depth(v) ==
  CASE v.t = "array" -> 1 + MaxOf({Depth(v.items[i]) : i \in 1..Len(v.items)})
    [] v.t = "object" -> 1 + MaxOf({Depth(v.get[k]) : k \in SeqToSet(v.keys)})
    [] OTHER -> 0

\* The definition with self replaced by the definition, n times; the
\* innermost self, which no input of depth n reaches, accepts anything.
RECURSIVE Unrolled(_, _)
Unrolled(name, n) ==
  IF n = 0 THEN definition(name, unknown)
  ELSE definition(name, Unrolled(name, n - 1))

\* C23: a recursive schema whose self sits below an array element
\* terminates on every tree-shaped input and returns what the schema
\* unrolled to the depth of the input returns, alone and as array item.
C23_RecursionEqualsUnrolling ==
  Validated =>
    /\ validator = tree =>
         result = validate(Unrolled("tree", Depth(value)), value, started, "").r
    /\ validator = array(tree) =>
         result = validate(array(Unrolled("tree", Depth(value))), value,
                           started, "").r

\* C23 witness: a tree whose nested node is malformed at the third level
\* was validated and exactly one error came back, at the node's path.
C23_Witness ==
  /\ Validated
  /\ validator = tree
  /\ started.transformObjectKeys = "undefined"
  /\ Depth(value) = 6
  /\ ~result.ok
  /\ ErrorPaths(result.errors) = <<"c.0.c.0.aB">>

\* C24: validate never throws: on every schema and every tree-shaped input
\* the call returns {ok: true, value} or {ok: false, errors}.
C24_ValidateReturnsData ==
  Validated =>
    /\ "exception" \notin DOMAIN result
    /\ "ok" \in DOMAIN result
    /\ IF result.ok THEN "value" \in DOMAIN result ELSE "errors" \in DOMAIN result

\* The keys the output v of a child holds.
ProducedKeys(v) == SeqToSet(OwnKeys(stringAsObject(v)))

\* C25: when every child of an intersection succeeds the result is an
\* object holding exactly the keys the children produced, each with the
\* value of the last child that produced it.
C25_IntersectionMergesRightBiased ==
  (Validated /\ validator.k = "intersection") =>
    LET n == Len(validator.validators)
        produced == [i \in 1..n |->
                       validate(validator.validators[i], value, started, "").r]
        last(k) == CHOOSE i \in 1..n :
                     /\ k \in ProducedKeys(produced[i].value)
                     /\ \A j \in (i + 1)..n : k \notin ProducedKeys(produced[j].value)
    IN (\A i \in 1..n : produced[i].ok) =>
         /\ result.ok
         /\ result.value.t = "object"
         /\ SeqToSet(result.value.keys) =
              UNION {ProducedKeys(produced[i].value) : i \in 1..n}
         /\ \A k \in SeqToSet(result.value.keys) :
              result.value.get[k] =
                GetProp(stringAsObject(produced[last(k)].value), k)

\* C25 witness: both children produced the key a, the first an array and
\* the second a number, and the result holds the second's.
C25_Witness ==
  /\ Validated
  /\ validator = intersection(<<object(<< <<"a", map(number, "wrap")>>,
                                          <<"b", unknown>> >>),
                                object(<< <<"a", number>> >>)>>)
  /\ value = SetProp(SetProp(EmptyObj, "a", Num(1)), "b", Str("1"))
  /\ result = Ok(SetProp(SetProp(EmptyObj, "a", Num(1)), "b", Str("1")))

\* The validators that delegate to children with a copy of their context.
Delegating == {"array", "tuple", "object", "dictionary", "union"}

\* The context object the intersection V hands to its child i: the one it
\* was given, as the children before i left it.
RECURSIVE SharedContext(_, _, _, _)
SharedContext(V, v, context, i) ==
  IF i = 1 THEN context
  ELSE validate(V.validators[i - 1], v, SharedContext(V, v, context, i - 1), "").c

\* C26: the children of array, tuple, object, dictionary and union start
\* with the customization flag unset whatever the flag of the parent's
\* context: what such a validator returns is what it returns from a
\* context whose flag is unset, at the root of a call and as the child of
\* an intersection whose earlier child has customized an error.
C26_ChildrenStartUnflagged ==
  Validated =>
    LET unflagged == Context(started.transformObjectKeys, FALSE)
    IN /\ validator.k \in Delegating =>
            result = validate(validator, value, unflagged, "").r
       /\ validator.k = "intersection" =>
            \A i \in 1..Len(validator.validators) :
              validator.validators[i].k \in Delegating =>
                validate(validator.validators[i], value,
                         SharedContext(validator, value, started, i), "").r
                  = validate(validator.validators[i], value, unflagged, "").r

\* C27: the children of an intersection share one customization slot: when
\* intersection(A.withError(f), B.withError(g)) is validated from a context
\* whose flag is unset and A and B both reject the input, the result is
\* the one error f(input) followed by B's own errors, and g is not called.
C27_IntersectionSharesTheSlot ==
  (/\ Validated
   /\ ~started.hadCustomError
   /\ validator.k = "intersection"
   /\ Len(validator.validators) = 2
   /\ validator.validators[1].k = "withError"
   /\ validator.validators[2].k = "withError") =>
    LET A == validator.validators[1].validator
        B == validator.validators[2].validator
        f == validator.validators[1].errorFunction
        g == validator.validators[2].errorFunction
        ofA == validate(A, value, started, "").r
        ofB == validate(B, value, started, "").r
    IN (~ofA.ok /\ ~ofB.ok) =>
         /\ result = Err(<<[path |-> "", message |-> CallErrorFunction(f, value)]>>
                           \o ofB.errors)
         /\ CallsOf(log, {f}) = 1
         /\ CallsOf(log, {g}) = 0

\* C27 witness: the object validator and the array validator both rejected
\* a list of two strings; f1 replaced the first's error and the two errors
\* of the array follow as they are.
C27_Witness ==
  /\ Validated
  /\ ~started.hadCustomError
  /\ validator = intersection(<<withError(object(<< <<"a", number>> >>), "f1"),
                                withError(array(number), "f2")>>)
  /\ value = Arr(<<Str("1"), Str("")>>)
  /\ ~result.ok
  /\ ErrorPaths(result.errors) = <<"", "0", "1">>

\* What the claim gives for W = S.withError(g) on x at path p from an
\* unflagged context: S's success, or the one error g(x) at p.
CustomizedResult(W, x, context, p) ==
  LET ofS == validate(W.validator, x, context, p).r
  IN IF ofS.ok THEN ofS
     ELSE Err(<<[path |-> p, message |-> CallErrorFunction(W.errorFunction, x)]>>)

\* C28: S.withError(g) over an array, tuple, object, dictionary or union S,
\* validated from a context whose flag is unset, fails whenever S fails
\* with exactly the error g(input) at the current path, also when
\* customizations have fired inside S's children; the current path is the
\* root path, or the item's path below an array.
C28_OuterCustomizationReplaces ==
  (Validated /\ ~started.hadCustomError) =>
    /\ (validator.k = "withError" /\ validator.validator.k \in Delegating) =>
         result = CustomizedResult(validator, value, started, "")
    /\ (/\ validator.k = "array"
        /\ validator.validator.k = "withError"
        /\ validator.validator.validator.k \in Delegating
        /\ value.t = "array") =>
         ErrorsOf(result) =
           FlatSeq([i \in 1..Len(value.items) |->
                      ErrorsOf(CustomizedResult(validator.validator, value.items[i],
                                                Spread(started), String(i - 1)))])

\* C28 witness: inside the tuple the customization 'min size is 1' fired
\* for the first user, and the call returned the one error of the outer
\* withError at the root.
C28_Witness ==
  /\ Validated
  /\ ~started.hadCustomError
  /\ validator = withError(tuple(<<user, user>>), "f2")
  /\ CallsOf(log, {"min size is 1"}) = 1
  /\ result = failure("", CallErrorFunction("f2", value))

\* The value x after the write w: the object or array of x that w targets
\* holds the written value, everything else is as it was.
RECURSIVE AfterWrite(_, _)
AfterWrite(x, w) ==
  CASE x.t = "object" ->
         LET get == [k \in SeqToSet(x.keys) |-> AfterWrite(x.get[k], w)]
             below == IF IdOf(x) = 0 THEN Obj(x.keys, get)
                      ELSE [t |-> "object", keys |-> x.keys, get |-> get, id |-> x.id]
         IN IF IdOf(x) # 0 /\ IdOf(x) = w.id THEN SetProp(below, w.name, w.val)
            ELSE below
    [] x.t = "array" ->
         LET items == [i \in 1..Len(x.items) |-> AfterWrite(x.items[i], w)]
             written == IF IdOf(x) # 0 /\ IdOf(x) = w.id
                        THEN Append(items, w.val) ELSE items
         IN IF IdOf(x) = 0 THEN Arr(written)
            ELSE [t |-> "array", items |-> written, id |-> x.id]
    [] OTHER -> x

\* The value x after the writes of the trace lg, in order.
RECURSIVE AfterWrites(_, _)
AfterWrites(x, lg) ==
  IF lg = <<>> THEN x
  ELSE AfterWrites(IF Head(lg).e = "write" THEN AfterWrite(x, Head(lg)) ELSE x,
                   Tail(lg))

\* C29: validate never modifies its input: after the writes of the call
\* the input and every object and array nested in it hold the keys and
\* values they held before.
C29_InputIsLeftAsItWas ==
  Validated => AfterWrites(value, log) = value

\* C29 witness: a dictionary whose domain validator rewrites the keys
\* succeeded on an object of two keys, wrote both entries under their new
\* keys, and the output holds them.
C29_Witness ==
  /\ Validated
  /\ validator = dictionary(map(string, "underscore"), unknown)
  /\ IdOf(value) = 1
  /\ value.t = "object"
  /\ value.keys = <<"a", "b">>
  /\ result.ok
  /\ result.value.keys = <<"_a", "_b">>
  /\ \E i \in 1..Len(log) : log[i].e = "write" /\ log[i].name = "_a"

\* C30: snakeCaseTransformation is idempotent on the keys made of ASCII
\* letters, digits and underscores, and its result holds no uppercase
\* letter.
C30_SnakeCaseIsIdempotent ==
  called = "snakeCaseTransformation(key)" =>
    /\ snakeCaseTransformation(snake) = snake
    /\ \A i \in 1..Len(snake) : ~IsUpper(snake[i])

\* C30 witness: aBCd became a_b_cd, which a second application keeps.
C30_Witness ==
  /\ called = "snakeCaseTransformation(key)"
  /\ key = <<"a", "B", "C", "d">>
  /\ snake = <<"a", "_", "b", "_", "c", "d">>
  /\ snakeCaseTransformation(snake) = snake

====
